---- MODULE Spec2Model ----
(***************************************************************************)
(* Model of the entity store of field-tracker: fieldtracker/model/db.py    *)
(* (Database) and fieldtracker/model/entity.py (Entity, EntityDbValues,    *)
(* ForeignFieldSpec, Statement).                                           *)
(*                                                                         *)
(* Three entity types are modelled, forming the reference chain            *)
(*   stage.div_id -> division.event_id -> event.                           *)
(* Every entity has its identity field; a division and a stage also have   *)
(* a foreign-key field (called fk here: event_id, div_id) and a bounded    *)
(* integer field (called num here: div_num, stg_num) with the compound     *)
(* uniqueness constraint UNIQUE (fk, num).                                 *)
(*                                                                         *)
(* The operations on one entity (field writes, revert, the delete flag)    *)
(* are followed on a second chain,                                         *)
(*   checkpoint.loc_id -> location.event_id -> event,                      *)
(* because loc_id is a foreign key that is not read-only.  A location has  *)
(* the fields fk (event_id), num (loc_num) and UNIQUE (fk, num); of a      *)
(* checkpoint the fields fk (loc_id) and num (cpt_num) are followed.  Its  *)
(* read-only div_id and stg_id point at classes of their own, and the      *)
(* reference index is kept per referring table and key, so those links do  *)
(* not meet the ones of loc_id.                                            *)
(*                                                                         *)
(* An in-memory Entity object is a handle in Obj (its Python id()).        *)
(* SQLite is modelled by the working content of the connection (rows,      *)
(* seq) and the committed content of the database file (durable,          *)
(* durableSeq); seq is the sqlite_sequence table behind AUTOINCREMENT.     *)
(***************************************************************************)
EXTENDS Integers, Sequences, FiniteSets, TLC

\* Bounds of the model.
MaxObj == 3         \* in-memory Entity objects alive at the same time
MaxEntityObj == 4   \* the same, in a run of EntitySpec
MaxEntityOps == 5   \* operations the caller invokes in a run of EntitySpec
MaxNum == 1         \* div_num / stg_num range over 0..MaxNum
MaxBatch == 3       \* statements in one batch
MaxOps == 7         \* operations the caller invokes in one run

Obj == 1..MaxEntityObj
NoObj == 0
\* Python None as an entity_id (SQLite row ids start at 1).
NoId == 0

Tables == {"event", "division", "stage"}
EntityTables == {"event", "location", "checkpoint"}
AllTables == Tables \cup EntityTables

\* The table a type's foreign-key field points at.
ForeignTable(t) ==
    IF t = "division" THEN "event" ELSE IF t = "stage" THEN "division"
    ELSE IF t = "location" THEN "event" ELSE IF t = "checkpoint" THEN "location"
    ELSE "none"

\* Tables declaring UNIQUE (fk, num).
UniqueTables == {"division", "stage", "location"}

\* _READ_ONLY: the types whose foreign-key field fk is read-only.
ReadOnlyTables == {"division", "stage", "location"}

VARIABLES
    etype,          \* Obj -> table of the live Entity at that handle, or "none"
    entity_id,      \* Entity._entity_id
    data_fields,    \* Entity._data_fields
    changed_fields, \* Entity._changed_fields, a set of <<name, value>>
    delete,         \* Entity._delete
    references,     \* Entity._references, a set of [key, ent]
    cache,          \* Database._cache, a set of [tbl, key, ent]
    rows,           \* connection's view of the tables (with uncommitted rows)
    seq,            \* connection's view of sqlite_sequence
    durable,        \* committed content of the tables
    durableSeq,     \* committed content of sqlite_sequence
    stmts,          \* the list of Statement objects the caller holds
    pc,             \* position inside Database.commit, "idle" outside
    idx,            \* index of the statement the commit loop is at
    creations,      \* the local list creations of Database.commit
    result,         \* outcome of the last operation
    trace,          \* what the current/last commit did, in order: callbacks
                    \* invoked, the failing statement, the transaction commit
    preId,          \* entity_id when the last commit was called
    preDurable,     \* durable when the last commit was called
    nops            \* number of operations the caller has invoked

vars == <<etype, entity_id, data_fields, changed_fields, delete, references,
          cache, rows, seq, durable, durableSeq, stmts, pc, idx, creations,
          result, trace, preId, preDurable, nops>>

entityVars == <<etype, entity_id, data_fields, changed_fields, delete, references>>
storeVars == <<rows, seq, durable, durableSeq>>
commitVars == <<pc, idx, creations>>

Live == {o \in Obj : etype[o] # "none"}

NoFields == [fk |-> NoObj, num |-> 0]

Op(name, status, error) == [op |-> name, status |-> status, error |-> error, tbl |-> ""]

\* The history of the last commit is dropped by every other operation.
ClearHistory ==
    /\ trace' = <<>>
    /\ preId' = [o \in Obj |-> NoId]
    /\ preDurable' = {}

Init ==
    /\ etype = [o \in Obj |-> "none"]
    /\ entity_id = [o \in Obj |-> NoId]
    /\ data_fields = [o \in Obj |-> NoFields]
    /\ changed_fields = [o \in Obj |-> {}]
    /\ delete = [o \in Obj |-> FALSE]
    /\ references = [o \in Obj |-> {}]
    /\ cache = {}
    /\ rows = {}
    /\ seq = [t \in AllTables |-> 0]
    /\ durable = {}
    /\ durableSeq = [t \in AllTables |-> 0]
    /\ stmts = <<>>
    /\ pc = "idle"
    /\ idx = 0
    /\ creations = <<>>
    /\ result = Op("init", "ok", "")
    /\ trace = <<>>
    /\ preId = [o \in Obj |-> NoId]
    /\ preDurable = {}
    /\ nops = 0

----------------------------------------------------------------------------
\* Entity

\* Entity.dirty
dirty(o) == {p[1] : p \in changed_fields[o]}

\* Entity.__getitem__: identity, else staged value, else committed value.
getitem(o, name) ==
    IF name = "id" THEN entity_id[o]
    ELSE IF name \in dirty(o)
         THEN (CHOOSE p \in changed_fields[o] : p[1] = name)[2]
         ELSE data_fields[o][name]

\* Entity.ref for an entity of table t, identity id and handle h.
ref(t, id, h) == IF id # NoId THEN <<t, id, NoObj>> ELSE <<t, NoId, h>>

\* Entity._link: references[entity.ref] = entity, in the index refs.
link(refs, key, e) ==
    {r \in refs : r.key # key} \cup {[key |-> key, ent |-> e]}

\* Entity._unlink: drop references[entity.ref] when it is that entity.
unlink(refs, key, e) ==
    {r \in refs : ~(r.key = key /\ r.ent = e)}

\* Entity._link_all of a live entity o: link o at the target of its
\* foreign-key field.
link_all(o) ==
    IF ForeignTable(etype[o]) = "none" THEN references
    ELSE LET target == getitem(o, "fk")
         IN [references EXCEPT ![target] =
                link(@, ref(etype[o], entity_id[o], o), o)]

\* Entity._unlink_all
unlink_all(o) ==
    IF ForeignTable(etype[o]) = "none" THEN references
    ELSE LET target == getitem(o, "fk")
         IN [references EXCEPT ![target] =
                unlink(@, ref(etype[o], entity_id[o], o), o)]

\* Entity.get_references(child_class)
get_references(o, child) == {r.ent : r \in {x \in references[o] : x.key[1] = child}}

\* How many times the list get_references(child_class) returns holds e:
\* list(references.values()) has one element for every key of the index.
get_references_count(o, child, e) ==
    Cardinality({r \in references[o] : r.key[1] = child /\ r.ent = e})

\* Entity._set_entity_id (the identity field is an IntFieldSpec, whose
\* from_db is the identity).
set_entity_id(ids, o, row_id) == [ids EXCEPT ![o] = row_id]

----------------------------------------------------------------------------
\* Operations of the caller (the front end), outside Database.commit.

\* id() of a newly allocated object: an address no live object has.
FreeHandle == CHOOSE h \in Obj : etype[h] = "none" /\ \A g \in 1..(h - 1) : etype[g] # "none"

\* Variant: the identity the next INSERT into the table would be given.
create_identity_next(t) == seq[t] + 1

\* The identity Database.create hands to the constructor:
\* fields[etype._ID_FIELD] = None.
create_identity(t) == NoId

\* Database.create(etype, **fields) -> Entity.__init__ with the identity
\* forced to None; the constructor checks every field and ends in _link_all.
\* target is the value of the foreign-key field (an entity of the target
\* type, as ForeignFieldSpec.check demands), n the value of num.
Create(t, target, n) ==
    /\ pc = "idle"
    /\ nops < MaxOps
    /\ nops' = nops + 1
    /\ \E h \in Obj : etype[h] = "none"
    /\ IF ForeignTable(t) = "none"
       THEN target = NoObj /\ n = 0
       ELSE target \in Live /\ etype[target] = ForeignTable(t)
    /\ LET h == FreeHandle
       IN /\ etype' = [etype EXCEPT ![h] = t]
          /\ entity_id' = [entity_id EXCEPT ![h] = create_identity(t)]
          /\ data_fields' = [data_fields EXCEPT ![h] = [fk |-> target, num |-> n]]
          /\ changed_fields' = [changed_fields EXCEPT ![h] = {}]
          /\ delete' = [delete EXCEPT ![h] = FALSE]
          /\ references' =
                IF ForeignTable(t) = "none"
                THEN [references EXCEPT ![h] = {}]
                ELSE [references EXCEPT ![h] = {},
                                        ![target] = link(@, ref(t, NoId, h), h)]
    /\ result' = Op("call", "ok", "")
    /\ ClearHistory
    /\ UNCHANGED <<cache, storeVars, stmts, commitVars>>

\* Entity.__setitem__ on the field num (not the identity, not read-only,
\* not a foreign key): the checked value is staged.
SetItem(o, v) ==
    /\ pc = "idle"
    /\ nops < MaxOps
    /\ nops' = nops + 1
    /\ o \in Live
    /\ ForeignTable(etype[o]) # "none"
    /\ changed_fields' = [changed_fields EXCEPT ![o] =
                            {p \in @ : p[1] # "num"} \cup {<<"num", v>>}]
    /\ result' = Op("call", "ok", "")
    /\ ClearHistory
    /\ UNCHANGED <<etype, entity_id, data_fields, delete, references, cache,
                   storeVars, stmts, commitVars>>

\* Entity.delete setter.
SetDelete(o, value) ==
    /\ pc = "idle"
    /\ nops < MaxOps
    /\ nops' = nops + 1
    /\ o \in Live
    /\ delete' = [delete EXCEPT ![o] = value]
    /\ references' = IF value THEN unlink_all(o) ELSE link_all(o)
    /\ result' = Op("call", "ok", "")
    /\ ClearHistory
    /\ UNCHANGED <<etype, entity_id, data_fields, changed_fields, cache,
                   storeVars, stmts, commitVars>>

\* Outcome of an operation on the entity o; before is the staged content of
\* o when the operation was invoked.
EntityOp(name, status, error, o, field) ==
    [op |-> name, status |-> status, error |-> error, tbl |-> etype[o],
     ent |-> o, field |-> field, before |-> changed_fields[o]]

\* FieldSpec.check of a value written to a field of a type-t entity.  A
\* number stands for itself in num; in fk a positive number is the handle
\* of an object, NoObj is None and a negative number any other value.
\* num is an IntFieldSpec(minimum=0): RangeFieldSpec.check.  fk is a
\* ForeignFieldSpec: isinstance(value, entity_class).
check(t, name, value) ==
    IF name = "fk"
    THEN value \in Live /\ etype[value] = ForeignTable(t)
    ELSE value >= 0

\* Variant: no test for the identity field and the _READ_ONLY fields.
Rejection_unprotected(t, view, name, value) ==
    IF view = "dbvalue" /\ name = "fk" THEN "NameError"
    ELSE IF name = "id" THEN "ValueError"
    ELSE IF check(t, name, value) THEN ""
    ELSE IF name = "fk" THEN "TypeError" ELSE "ValueError"

\* The exception a write of value to the field name of the type-t entity
\* raises, "" when it raises none.  view: the entity itself, entity.uservalue
\* or entity.dbvalue.  The views convert first; the storage view converts a
\* foreign key with ForeignFieldSpec.from_db, which fetches the target, and
\* every fetch raises NameError (see select below).  Then Entity.__setitem__
\* refuses the identity field and the _READ_ONLY fields, then spec.check.
Rejection(t, view, name, value) ==
    IF view = "dbvalue" /\ name = "fk" THEN "NameError"
    ELSE IF name = "id" \/ (name = "fk" /\ t \in ReadOnlyTables) THEN "ValueError"
    ELSE IF check(t, name, value) THEN ""
    ELSE IF name = "fk" THEN "TypeError" ELSE "ValueError"

\* Variant: the value staged before it is checked.
setitem_raising_staged(o, name, value) ==
    [changed_fields EXCEPT ![o] = {p \in @ : p[1] # name} \cup {<<name, value>>}]

\* The staged values a raising Entity.__setitem__ leaves: every raise
\* (lines 200 and 203, or the conversion of a view) precedes the assignment
\* to self._changed_fields[name].
setitem_raising(o, name, value) == changed_fields

\* entity[name] = value, entity.uservalue[name] = value or
\* entity.dbvalue[name] = value, raising.
SetItemRejected(o, view, name, value) ==
    /\ pc = "idle"
    /\ nops < MaxOps
    /\ nops' = nops + 1
    /\ o \in Live
    /\ name = "id" \/ ForeignTable(etype[o]) # "none"
    /\ Rejection(etype[o], view, name, value) # ""
    /\ changed_fields' = setitem_raising(o, name, value)
    /\ result' = EntityOp("setitem", "raised", Rejection(etype[o], view, name, value),
                          o, name)
    /\ ClearHistory
    /\ UNCHANGED <<etype, entity_id, data_fields, delete, references, cache,
                   storeVars, stmts, commitVars>>

\* The exception Database.create(etype, **fields) raises, "" when it raises
\* none.  given: the identity field is among the fields (ValueError, before
\* any object is made).  Otherwise Entity.__init__ checks the fields in the
\* order of _ENTITY_FIELDS and re-raises what spec.check raises.  An event
\* has neither fk nor num.
CreateRejection(t, given, target, n) ==
    IF given THEN "ValueError"
    ELSE IF ForeignTable(t) = "none" THEN ""
    ELSE IF ~check(t, "fk", target) THEN "TypeError"
    ELSE IF ~check(t, "num", n) THEN "ValueError"
    ELSE ""

\* Variant: a foreign-key field linked as soon as its own check has passed.
init_raising_linked(t, target, h) ==
    IF check(t, "fk", target)
    THEN [references EXCEPT ![target] = link(@, ref(t, NoId, h), h)]
    ELSE references

\* The reference indexes a raising Entity.__init__ leaves: the loop over
\* _ENTITY_FIELDS only fills self._data_fields, and self._link_all() is the
\* last statement, after every check.
init_raising(t, target, h) == references

\* id() of the object a raising constructor was working on: it is never
\* returned, so it is no handle of Obj.
Unreturned == MaxEntityObj + 1

\* Database.create(etype, **fields), raising.  The object under construction
\* is never returned: no handle comes into use.
CreateRejected(t, given, target, n) ==
    /\ pc = "idle"
    /\ nops < MaxOps
    /\ nops' = nops + 1
    /\ ForeignTable(t) = "none" => (target = NoObj /\ n = 0)
    /\ CreateRejection(t, given, target, n) # ""
    /\ references' = IF given \/ ForeignTable(t) = "none"
                     THEN references
                     ELSE init_raising(t, target, Unreturned)
    /\ result' = [op |-> "create", status |-> "raised",
                  error |-> CreateRejection(t, given, target, n), tbl |-> t,
                  given |-> given]
    /\ ClearHistory
    /\ UNCHANGED <<etype, entity_id, data_fields, changed_fields, delete, cache,
                   storeVars, stmts, commitVars>>

\* Entity.__setitem__ on a foreign-key field that is not read-only, with a
\* value that passes the check: the value is staged, the old target drops
\* its link to the entity and the new target records one.
SetForeign(o, target) ==
    /\ pc = "idle"
    /\ nops < MaxOps
    /\ nops' = nops + 1
    /\ o \in Live
    /\ ForeignTable(etype[o]) # "none"
    /\ Rejection(etype[o], "entity", "fk", target) = ""
    /\ LET old == getitem(o, "fk")
           key == ref(etype[o], entity_id[o], o)
           dropped == [references EXCEPT ![old] = unlink(@, key, o)]
       IN references' = [dropped EXCEPT ![target] = link(@, key, o)]
    /\ changed_fields' = [changed_fields EXCEPT ![o] =
                            {p \in @ : p[1] # "fk"} \cup {<<"fk", target>>}]
    /\ result' = EntityOp("setitem", "ok", "", o, "fk")
    /\ ClearHistory
    /\ UNCHANGED <<etype, entity_id, data_fields, delete, cache, storeVars, stmts,
                   commitVars>>

\* Entity.__delitem__ of every staged field of o, on the reference index:
\* only a foreign-key field touches it (the staged target drops the link,
\* the committed target records one).
delitem_all(o) ==
    IF "fk" \in dirty(o)
    THEN LET old == getitem(o, "fk")
             value == data_fields[o].fk
             key == ref(etype[o], entity_id[o], o)
             dropped == [references EXCEPT ![old] = unlink(@, key, o)]
         IN [dropped EXCEPT ![value] = link(@, key, o)]
    ELSE references

\* Entity.revert(): del self[field] for every field of self.dirty.
Revert(o) ==
    /\ pc = "idle"
    /\ nops < MaxOps
    /\ nops' = nops + 1
    /\ o \in Live
    /\ references' = delitem_all(o)
    /\ changed_fields' = [changed_fields EXCEPT ![o] = {}]
    /\ result' = EntityOp("revert", "ok", "", o, "")
    /\ ClearHistory
    /\ UNCHANGED <<etype, entity_id, data_fields, delete, cache, storeVars, stmts,
                   commitVars>>

\* Variant: the id of the target encoded at once, known or not.
to_db_eager(target) == [deferred |-> FALSE, v |-> entity_id[target]]

\* ForeignFieldSpec.to_db(value): the id when the target has one, else the
\* closure _get_id over the target.
to_db(target) ==
    IF entity_id[target] = NoId
    THEN [deferred |-> TRUE, v |-> target]
    ELSE [deferred |-> FALSE, v |-> entity_id[target]]

NoArg == [deferred |-> FALSE, v |-> 0]

\* The INSERT Statement EntityDbValues.statement builds for a pending o.
InsertStatement(o) ==
    [action |-> "INSERT",
     table |-> etype[o],
     ent |-> o,
     fk |-> IF ForeignTable(etype[o]) = "none" THEN NoArg ELSE to_db(getitem(o, "fk")),
     num |-> getitem(o, "num"),
     rowid_callback |-> "_set_entity_id",
     commit_callback |-> "_mark_committed"]

\* EntityDbValues.statement, appended by the caller to its list when it is
\* a Statement.  DELETE and UPDATE pass where= to Statement.__init__, which
\* has no such parameter: the constructor call raises TypeError.
BuildStatement(o) ==
    /\ pc = "idle"
    /\ nops < MaxOps
    /\ nops' = nops + 1
    /\ o \in Live
    /\ Len(stmts) < MaxBatch
    /\ IF delete[o]
       THEN IF entity_id[o] # NoId
            THEN result' = Op("statement", "raised", "TypeError") /\ stmts' = stmts
            ELSE result' = Op("statement", "ok", "None") /\ stmts' = stmts
       ELSE IF entity_id[o] # NoId
            THEN result' = Op("statement", "raised", "TypeError") /\ stmts' = stmts
            ELSE /\ result' = Op("statement", "ok", "INSERT")
                 /\ stmts' = Append(stmts, InsertStatement(o))
    /\ ClearHistory
    /\ UNCHANGED <<entityVars, cache, storeVars, commitVars>>

\* Callbacks a caller of Statement.__init__ may pass itself: a rowid_callback
\* that raises, or a commit_callback that raises.
CustomCallbacks == {<<"raises", "None">>, <<"None", "raises">>}

\* Statement(Action.INSERT, "event", values, rowid_callback=rcb,
\* commit_callback=ccb) built by the caller directly.
BuildCustom(rcb, ccb) ==
    /\ pc = "idle"
    /\ nops < MaxOps
    /\ nops' = nops + 1
    /\ Len(stmts) < MaxBatch
    /\ stmts' = Append(stmts,
            [action |-> "INSERT", table |-> "event", ent |-> NoObj, fk |-> NoArg,
             num |-> 0, rowid_callback |-> rcb, commit_callback |-> ccb])
    /\ result' = Op("statement", "ok", "INSERT")
    /\ ClearHistory
    /\ UNCHANGED <<entityVars, cache, storeVars, commitVars>>

\* The caller drops its list of statements.
NewBatch ==
    /\ pc = "idle"
    /\ nops < MaxOps
    /\ nops' = nops + 1
    /\ stmts # <<>>
    /\ stmts' = <<>>
    /\ result' = Op("call", "ok", "")
    /\ ClearHistory
    /\ UNCHANGED <<entityVars, cache, storeVars, commitVars>>

\* Objects a statement keeps alive (bound methods and the _get_id closure).
StatementObjects ==
    {stmts[i].ent : i \in 1..Len(stmts)} \cup
    {stmts[i].fk.v : i \in {j \in 1..Len(stmts) : stmts[j].fk.deferred}}

\* The caller drops its references to the objects of S and they are
\* garbage-collected: nothing outside S refers to them strongly.  The
\* WeakValueDictionary caches lose their entries for them.
Collect(S) ==
    /\ pc = "idle"
    /\ nops < MaxOps
    /\ nops' = nops + 1
    /\ S # {}
    /\ S \subseteq Live
    /\ S \cap StatementObjects = {}
    /\ \A o \in Live \ S :
          /\ ~(ForeignTable(etype[o]) # "none" /\ data_fields[o].fk \in S)
          /\ \A r \in references[o] : r.ent \notin S
    /\ etype' = [o \in Obj |-> IF o \in S THEN "none" ELSE etype[o]]
    /\ entity_id' = [o \in Obj |-> IF o \in S THEN NoId ELSE entity_id[o]]
    /\ data_fields' = [o \in Obj |-> IF o \in S THEN NoFields ELSE data_fields[o]]
    /\ changed_fields' = [o \in Obj |-> IF o \in S THEN {} ELSE changed_fields[o]]
    /\ delete' = [o \in Obj |-> IF o \in S THEN FALSE ELSE delete[o]]
    /\ references' = [o \in Obj |-> IF o \in S THEN {} ELSE references[o]]
    /\ cache' = {c \in cache : c.ent \notin S}
    /\ result' = Op("call", "ok", "")
    /\ ClearHistory
    /\ UNCHANGED <<storeVars, stmts, commitVars>>

\* Entity.select(criteria) calls compile_criteria, a name defined nowhere
\* (entity.py imports compile_where): the call raises NameError.
select(t) == "NameError"

\* Database.fetch(etype, criteria), iterated by the caller.  The generator
\* enters _fetch, whose first statement is etype.select(criteria); that
\* raises before any row is read, so nothing is looked up in the cache,
\* refreshed or constructed.
Fetch(t) ==
    /\ pc = "idle"
    /\ nops < MaxOps
    /\ nops' = nops + 1
    /\ result' = [Op("fetch", "raised", select(t)) EXCEPT !.tbl = t]
    /\ ClearHistory
    /\ UNCHANGED <<entityVars, cache, storeVars, stmts, commitVars>>

----------------------------------------------------------------------------
\* Database.commit(statements), one step per iteration of its loops.

Event(ev, i, arg) == [ev |-> ev, stmt |-> i, arg |-> arg]

\* commit() is entered: cur = self._conn.cursor(); creations = [].
StartCommit ==
    /\ pc = "idle"
    /\ nops < MaxOps
    /\ nops' = nops + 1
    /\ pc' = IF stmts = <<>> THEN "conn_commit" ELSE "execute"
    /\ idx' = IF stmts = <<>> THEN 0 ELSE 1
    /\ creations' = <<>>
    /\ trace' = <<>>
    /\ preId' = entity_id
    /\ preDurable' = durable
    /\ result' = Op("commit", "running", "")
    /\ UNCHANGED <<entityVars, cache, storeVars, stmts>>

\* Variant: a rollback that leaves the connection's view as it is.
conn_rollback_skipped(working, committed) == working

\* sqlite3 Connection.rollback(): the connection's view falls back to the
\* committed content.
conn_rollback(working, committed) == committed

\* The loop of the except handler: statement.rowid_callback(None) for every
\* statement noted in creations.
rollback_ids(ids, made) ==
    [o \in Obj |->
        IF \E k \in 1..Len(made) : stmts[made[k]].ent = o
        THEN set_entity_id(ids, o, NoId)[o]
        ELSE ids[o]]

\* The except handler of the execute loop (db.py 117-132), entered with the
\* connection's view as the failing statement left it.
Raise(err, working, workingSeq) ==
    /\ UNCHANGED nops
    /\ rows' = conn_rollback(working, durable)
    /\ seq' = conn_rollback(workingSeq, durableSeq)
    /\ entity_id' = rollback_ids(entity_id, creations)
    /\ trace' = Append(trace, Event("failed", idx, 0)) \o
                    [k \in 1..Len(creations) |-> Event("rowid", creations[k], NoId)]
    /\ pc' = "idle"
    /\ idx' = 0
    /\ creations' = <<>>
    /\ result' = Op("commit", "raised", err)
    /\ UNCHANGED <<etype, data_fields, changed_fields, delete, references, cache,
                   durable, durableSeq, stmts, preId, preDurable>>

\* Variant: a resolver that never raises.
Unresolved_never(s) == FALSE

\* Variant: a deferred argument resolved when it was built, to None.
get_value_eager(s) == IF s.fk.deferred THEN NoId ELSE s.fk.v

\* Statement.arguments -> _get_value: a deferred argument is called now.
\* Unresolved(s): _get_id finds the target without an id and raises.
Unresolved(s) == s.fk.deferred /\ entity_id[s.fk.v] = NoId
get_value(s) == IF s.fk.deferred THEN entity_id[s.fk.v] ELSE s.fk.v

\* UNIQUE (fk, num) of the division and stage tables.
ViolatesUnique(tbl, fkval, n) ==
    /\ tbl \in UniqueTables
    /\ \E r \in rows : r.tbl = tbl /\ r.fk = fkval /\ r.num = n

\* Variant: the notification loop entered straight after the execute loop,
\* before the transaction is committed.
after_execute_notify_first(i, n) ==
    IF i < n THEN [pc |-> "execute", idx |-> i + 1]
    ELSE [pc |-> "notify", idx |-> 1]

\* Variant: one row id sequence shared by all tables.
lastrowid_shared(counters, tbl) ==
    counters["event"] + counters["division"] + counters["stage"] + 1

\* cur.lastrowid after an INSERT: every identity column is declared
\* INTEGER PRIMARY KEY AUTOINCREMENT, a sequence of its own table.
lastrowid(counters, tbl) == counters[tbl] + 1

\* Where the execute loop goes after statement i of n.
after_execute(i, n) ==
    IF i < n THEN [pc |-> "execute", idx |-> i + 1]
    ELSE [pc |-> "conn_commit", idx |-> 0]

\* One iteration of the execute loop (db.py 100-116), with the except
\* handler when it raises.  fault: cur.execute fails for a reason outside
\* the data (sqlite3.OperationalError).
Execute(fault) ==
    /\ pc = "execute"
    /\ LET s == stmts[idx]
           row_id == lastrowid(seq, s.table)
           fkval == get_value(s)
           inserted == rows \cup {[tbl |-> s.table, id |-> row_id, fk |-> fkval, num |-> s.num]}
           counted == [seq EXCEPT ![s.table] = row_id]
           next == after_execute(idx, Len(stmts))
       IN IF Unresolved(s) THEN Raise("ValueError", rows, seq)
          ELSE IF fault THEN Raise("OperationalError", rows, seq)
          ELSE IF ViolatesUnique(s.table, fkval, s.num) THEN Raise("IntegrityError", rows, seq)
          ELSE IF s.rowid_callback = "raises" THEN Raise("CallbackError", inserted, counted)
          ELSE /\ UNCHANGED nops
               /\ rows' = inserted
               /\ seq' = counted
               /\ IF s.rowid_callback = "_set_entity_id"
                  THEN /\ entity_id' = set_entity_id(entity_id, s.ent, row_id)
                       /\ creations' = Append(creations, idx)
                       /\ trace' = Append(trace, Event("rowid", idx, row_id))
                  ELSE UNCHANGED <<entity_id, creations, trace>>
               /\ pc' = next.pc
               /\ idx' = next.idx
               /\ UNCHANGED <<etype, data_fields, changed_fields, delete, references,
                              cache, durable, durableSeq, stmts, result, preId,
                              preDurable>>

\* Where commit() goes after self._conn.commit() succeeded.
after_conn_commit(n) ==
    IF n = 0 THEN [pc |-> "idle", idx |-> 0, result |-> Op("commit", "returned", "")]
    ELSE [pc |-> "notify", idx |-> 1, result |-> Op("commit", "running", "")]

\* self._conn.commit() (db.py 134) succeeds: the connection's view becomes
\* the committed content.
ConnCommit ==
    /\ UNCHANGED nops
    /\ pc = "conn_commit"
    /\ durable' = rows
    /\ durableSeq' = seq
    /\ trace' = Append(trace, Event("conn_commit", 0, 0))
    /\ LET next == after_conn_commit(Len(stmts))
       IN pc' = next.pc /\ idx' = next.idx /\ result' = next.result
    /\ creations' = <<>>
    /\ UNCHANGED <<entityVars, cache, rows, seq, stmts, preId, preDurable>>

\* self._conn.commit() raises.  The call is outside the try block, so the
\* exception leaves commit() at once.  SQLite either keeps the transaction
\* open (SQLITE_BUSY) or has rolled it back itself (SQLITE_FULL, I/O error).
ConnCommitFails(keepOpen) ==
    /\ UNCHANGED nops
    /\ pc = "conn_commit"
    /\ rows' = IF keepOpen THEN rows ELSE durable
    /\ seq' = IF keepOpen THEN seq ELSE durableSeq
    /\ pc' = "idle"
    /\ idx' = 0
    /\ creations' = <<>>
    /\ result' = Op("commit", "raised", "CommitError")
    /\ UNCHANGED <<entityVars, cache, durable, durableSeq, stmts, trace, preId,
                   preDurable>>

\* WeakValueDictionary.__setitem__ / pop on the cache of one table.
cache_put(c, tbl, key, e) ==
    {x \in c : ~(x.tbl = tbl /\ x.key = key)} \cup {[tbl |-> tbl, key |-> key, ent |-> e]}
cache_pop(c, tbl, key) == {x \in c : ~(x.tbl = tbl /\ x.key = key)}

\* Variant: the committed values replaced by the staged ones
\* (_data_fields = _changed_fields), losing every field not staged.
fold_replace(data, changed) ==
    [name \in DOMAIN data |->
        IF \E p \in changed : p[1] = name
        THEN (CHOOSE p \in changed : p[1] = name)[2]
        ELSE NoFields[name]]

\* dict.update(entity._changed_fields) on entity._data_fields.
fold(data, changed) ==
    [name \in DOMAIN data |->
        IF \E p \in changed : p[1] = name
        THEN (CHOOSE p \in changed : p[1] = name)[2]
        ELSE data[name]]

\* EntityDbValues._mark_committed of entity o.
mark_committed(o) ==
    IF delete[o]
    THEN /\ cache' = cache_pop(cache, etype[o], entity_id[o])
         /\ UNCHANGED <<data_fields, changed_fields>>
    ELSE /\ data_fields' = [data_fields EXCEPT ![o] = fold(@, changed_fields[o])]
         /\ changed_fields' = [changed_fields EXCEPT ![o] = {}]
         /\ cache' = cache_put(cache, etype[o], entity_id[o], o)

\* Variant: an exception of a commit callback leaves commit().
after_notify_reraise(raised, i, n) ==
    IF raised THEN [pc |-> "idle", idx |-> 0, result |-> Op("commit", "raised", "CallbackError")]
    ELSE IF i < n THEN [pc |-> "notify", idx |-> i + 1, result |-> Op("commit", "running", "")]
    ELSE [pc |-> "idle", idx |-> 0, result |-> Op("commit", "returned", "")]

\* Where the notification loop goes after the callback of statement i of n;
\* raised: the callback raised (the except clause only logs).
after_notify(raised, i, n) ==
    IF i < n THEN [pc |-> "notify", idx |-> i + 1, result |-> Op("commit", "running", "")]
    ELSE [pc |-> "idle", idx |-> 0, result |-> Op("commit", "returned", "")]

\* One iteration of the notification loop (db.py 138-147).
Notify ==
    /\ UNCHANGED nops
    /\ pc = "notify"
    /\ LET s == stmts[idx]
           next == after_notify(s.commit_callback = "raises", idx, Len(stmts))
       IN /\ IF s.commit_callback = "_mark_committed"
             THEN mark_committed(s.ent)
             ELSE UNCHANGED <<data_fields, changed_fields, cache>>
          /\ trace' = IF s.commit_callback = "None" THEN trace
                      ELSE Append(trace, Event("notify", idx, 0))
          /\ pc' = next.pc
          /\ idx' = next.idx
          /\ result' = next.result
    /\ UNCHANGED <<etype, entity_id, delete, references, storeVars, stmts,
                   creations, preId, preDurable>>

----------------------------------------------------------------------------
Next ==
    \/ \E t \in Tables, target \in Obj \cup {NoObj}, n \in 0..MaxNum :
            Cardinality(Live) < MaxObj /\ Create(t, target, n)
    \/ \E o \in Obj, v \in 0..MaxNum : SetItem(o, v)
    \/ \E o \in Obj, value \in BOOLEAN : SetDelete(o, value)
    \/ \E o \in Obj : BuildStatement(o)
    \/ \E cb \in CustomCallbacks : BuildCustom(cb[1], cb[2])
    \/ NewBatch
    \/ \E S \in SUBSET Obj : Collect(S)
    \/ \E t \in Tables : Fetch(t)
    \/ StartCommit
    \/ \E fault \in BOOLEAN : Execute(fault)
    \/ ConnCommit
    \/ \E keepOpen \in BOOLEAN : ConnCommitFails(keepOpen)
    \/ Notify

Spec == Init /\ [][Next]_vars

----------------------------------------------------------------------------
\* The operations on entities, followed from the state the event set-up
\* leaves: an event E (handle 1) and two of its locations L1, L2 (handles 2
\* and 3, loc_num 0 and 1) were created with Database.create and stored by
\* one commit([E, L1, L2]); the caller has dropped the list of statements.
\* The locations were linked at E when they were constructed, under the
\* keys they had then.  The caller is left MaxEntityOps operations.
EntityInit ==
    /\ etype = [o \in Obj |-> IF o = 1 THEN "event"
                              ELSE IF o \in {2, 3} THEN "location" ELSE "none"]
    /\ entity_id = [o \in Obj |-> IF o \in {1, 2} THEN 1 ELSE IF o = 3 THEN 2 ELSE NoId]
    /\ data_fields = [o \in Obj |-> IF o = 2 THEN [fk |-> 1, num |-> 0]
                                    ELSE IF o = 3 THEN [fk |-> 1, num |-> 1]
                                    ELSE NoFields]
    /\ changed_fields = [o \in Obj |-> {}]
    /\ delete = [o \in Obj |-> FALSE]
    /\ references = [o \in Obj |->
                        IF o = 1
                        THEN {[key |-> ref("location", NoId, 2), ent |-> 2],
                              [key |-> ref("location", NoId, 3), ent |-> 3]}
                        ELSE {}]
    /\ cache = {[tbl |-> "event", key |-> 1, ent |-> 1],
                [tbl |-> "location", key |-> 1, ent |-> 2],
                [tbl |-> "location", key |-> 2, ent |-> 3]}
    /\ rows = {[tbl |-> "event", id |-> 1, fk |-> 0, num |-> 0],
               [tbl |-> "location", id |-> 1, fk |-> 1, num |-> 0],
               [tbl |-> "location", id |-> 2, fk |-> 1, num |-> 1]}
    /\ seq = [t \in AllTables |-> IF t = "event" THEN 1
                                  ELSE IF t = "location" THEN 2 ELSE 0]
    /\ durable = rows
    /\ durableSeq = seq
    /\ stmts = <<>>
    /\ pc = "idle"
    /\ idx = 0
    /\ creations = <<>>
    /\ result = Op("call", "ok", "")
    /\ trace = <<>>
    /\ preId = [o \in Obj |-> NoId]
    /\ preDurable = {}
    /\ nops = MaxOps - MaxEntityOps

\* Values a caller writes to a field: numbers below and in the range of
\* num, None, the handles of objects.
WrittenValues == (0 - 1)..MaxEntityObj

EntityNext ==
    \/ \E t \in EntityTables, target \in Obj \cup {NoObj}, n \in 0..MaxNum :
            Create(t, target, n)
    \/ \E o \in Obj, v \in 0..MaxNum : SetItem(o, v)
    \/ \E o \in Obj, target \in Obj : SetForeign(o, target)
    \/ \E o \in Obj, view \in {"entity", "uservalue", "dbvalue"},
          name \in {"id", "fk", "num"}, value \in WrittenValues :
            SetItemRejected(o, view, name, value)
    \/ \E o \in Obj : Revert(o)
    \/ \E o \in Obj, value \in BOOLEAN : SetDelete(o, value)
    \/ \E o \in Obj : BuildStatement(o)
    \/ NewBatch
    \/ StartCommit
    \/ \E fault \in BOOLEAN : Execute(fault)
    \/ ConnCommit
    \/ \E keepOpen \in BOOLEAN : ConnCommitFails(keepOpen)
    \/ Notify

EntitySpec == EntityInit /\ [][EntityNext]_vars

----------------------------------------------------------------------------
\* The arguments of statements, read by the caller as well as by commit().
\* Followed from an earlier state of the event set-up: the event E (handle
\* 1) and its first location L1 (handle 2) were created and stored by one
\* commit([E, L1]), so that two more objects (a location and a checkpoint at
\* it) can be made.  The caller creates entities, assigns foreign keys,
\* builds and reads statements and commits.

\* statement.arguments of the i-th statement the caller holds: the tuple
\* Statement._get_arguments(display=False) makes, every callable argument
\* called; the ValueError of a resolver leaves the property.
ReadArguments(i) ==
    /\ pc = "idle"
    /\ nops < MaxOps
    /\ nops' = nops + 1
    /\ i \in 1..Len(stmts)
    /\ result' =
          IF Unresolved(stmts[i])
          THEN [op |-> "arguments", status |-> "raised", error |-> "ValueError",
                tbl |-> stmts[i].table, stmt |-> i, fk |-> NoArg]
          ELSE [op |-> "arguments", status |-> "ok", error |-> "",
                tbl |-> stmts[i].table, stmt |-> i,
                fk |-> [deferred |-> FALSE, v |-> get_value(stmts[i])]]
    /\ ClearHistory
    /\ UNCHANGED <<entityVars, cache, storeVars, stmts, commitVars>>

ArgumentInit ==
    /\ etype = [o \in Obj |-> IF o = 1 THEN "event"
                              ELSE IF o = 2 THEN "location" ELSE "none"]
    /\ entity_id = [o \in Obj |-> IF o \in {1, 2} THEN 1 ELSE NoId]
    /\ data_fields = [o \in Obj |-> IF o = 2 THEN [fk |-> 1, num |-> 0] ELSE NoFields]
    /\ changed_fields = [o \in Obj |-> {}]
    /\ delete = [o \in Obj |-> FALSE]
    /\ references = [o \in Obj |->
                        IF o = 1 THEN {[key |-> ref("location", NoId, 2), ent |-> 2]}
                        ELSE {}]
    /\ cache = {[tbl |-> "event", key |-> 1, ent |-> 1],
                [tbl |-> "location", key |-> 1, ent |-> 2]}
    /\ rows = {[tbl |-> "event", id |-> 1, fk |-> 0, num |-> 0],
               [tbl |-> "location", id |-> 1, fk |-> 1, num |-> 0]}
    /\ seq = [t \in AllTables |-> IF t \in {"event", "location"} THEN 1 ELSE 0]
    /\ durable = rows
    /\ durableSeq = seq
    /\ stmts = <<>>
    /\ pc = "idle"
    /\ idx = 0
    /\ creations = <<>>
    /\ result = Op("call", "ok", "")
    /\ trace = <<>>
    /\ preId = [o \in Obj |-> NoId]
    /\ preDurable = {}
    /\ nops = 0

ArgumentNext ==
    \/ \E t \in EntityTables, target \in Obj \cup {NoObj}, n \in 0..MaxNum :
            Create(t, target, n)
    \/ \E t \in EntityTables, given \in BOOLEAN, target \in Obj \cup {NoObj},
          n \in -1..MaxNum : CreateRejected(t, given, target, n)
    \/ \E o \in Obj, target \in Obj : SetForeign(o, target)
    \/ \E o \in Obj : BuildStatement(o)
    \/ \E i \in 1..MaxBatch : ReadArguments(i)
    \/ NewBatch
    \/ StartCommit
    \/ \E fault \in BOOLEAN : Execute(fault)
    \/ ConnCommit
    \/ \E keepOpen \in BOOLEAN : ConnCommitFails(keepOpen)
    \/ Notify

ArgumentSpec == ArgumentInit /\ [][ArgumentNext]_vars

----------------------------------------------------------------------------
\* fieldtracker/model/where.py: the WHERE-clause compiler.
\*
\* A Python value is a record: an int (n), a str (s), a list (items), a dict
\* (items: its pairs in insertion order), a pair (field, items = <<value>>).
\* A string the compiler takes apart (a field name) is the sequence of its
\* characters; a string it builds (the SQL) is the sequence of the pieces it
\* is put together from, a placeholder being the piece "?".

Value(kind, n, s, field, items) ==
    [kind |-> kind, n |-> n, s |-> s, field |-> field, items |-> items]
PyInt(n) == Value("int", n, "", <<>>, <<>>)
PyStr(s) == Value("str", 0, s, <<>>, <<>>)
PyList(items) == Value("list", 0, "", <<>>, items)
PyDict(pairs) == Value("dict", 0, "", <<>>, pairs)
Pair(field, criteria) == Value("pair", 0, "", field, <<criteria>>)

\* What a call gives: (sql, args), or the exception it raises.
Compiled(sql, args) == [ok |-> TRUE, error |-> "", sql |-> sql, args |-> args]
Raises(error) == [ok |-> FALSE, error |-> error, sql |-> <<>>, args |-> <<>>]

\* Variant: a fragment put in bare.
wrap_bare(sql) == sql

\* "(%s)" % sql
wrap(sql) == <<"(">> \o sql \o <<")">>

\* sep.join(fragments)
RECURSIVE join(_, _)
join(sep, fragments) ==
    IF fragments = <<>> THEN <<>>
    ELSE IF Len(fragments) = 1 THEN fragments[1]
    ELSE fragments[1] \o sep \o join(sep, Tail(fragments))

\* arguments.extend(args) for every sub-result, in order.
RECURSIVE extend(_)
extend(rs) == IF rs = <<>> THEN <<>> ELSE rs[1].args \o extend(Tail(rs))

\* The loops of compile_where and _compile_op over the sub-criteria, whose
\* results are rs: the first one that raised ends the loop with its
\* exception; otherwise the fragments are wrapped and joined.
collect(sep, rs) ==
    IF \E i \in 1..Len(rs) : ~rs[i].ok
    THEN rs[CHOOSE i \in 1..Len(rs) : ~rs[i].ok /\ \A j \in 1..(i - 1) : rs[j].ok]
    ELSE Compiled(join(sep, [i \in 1..Len(rs) |-> wrap(rs[i].sql)]), extend(rs))

BoolOps == {"AND", "OR"}
InOps == {"IN", "NOT IN"}
CompareOps == {"=", "!=", "<", "<=", ">", ">=", "LIKE", "NOT LIKE"}

\* Variant: one placeholder whatever the number of arguments.
placeholders_single(op_args) == <<"?">>

\* ", ".join("?" for n in op_args)
placeholders(op_args) == join(<<", ">>, [i \in 1..Len(op_args) |-> <<"?">>])

\* Variant: a comparison that takes its first argument and ignores the rest.
comparison_arity_any(op_args) == Len(op_args) >= 1

\* len(op_args) != 1 refuses a comparison.
comparison_arity(op_args) == Len(op_args) = 1

\* _compile_op(field, criteria)
RECURSIVE _compile_op(_, _)
_compile_op(field, criteria) ==
    IF criteria.kind = "list"
    THEN IF Len(criteria.items) = 0 THEN Raises("ValueError")
         ELSE LET op == criteria.items[1]
                  op_args == Tail(criteria.items)
              IN IF op.kind = "str" /\ op.s \in BoolOps
                 THEN collect(<<" ", op.s, " ">>,
                              [i \in 1..Len(op_args) |-> _compile_op(field, op_args[i])])
                 ELSE IF op.kind = "str" /\ op.s \in InOps
                 THEN IF Len(op_args) < 1 THEN Raises("ValueError")
                      ELSE Compiled(field \o <<" ", op.s, " ", "(">>
                                        \o placeholders(op_args) \o <<")">>,
                                    op_args)
                 ELSE IF op.kind = "str" /\ op.s \in CompareOps
                 THEN IF ~comparison_arity(op_args) THEN Raises("ValueError")
                      ELSE Compiled(field \o <<" ", op.s, " ", "?">>, <<op_args[1]>>)
                 ELSE Raises("ValueError")
    ELSE IF criteria.kind # "dict"
    THEN Compiled(field \o <<" ", "=", " ", "?">>, <<criteria>>)
    ELSE Raises("TypeError")

\* "NOT (%s)" % sql
negated(sql) == <<"NOT ", "(">> \o sql \o <<")">>

\* compile_op(field, criteria)
compile_op(field, criteria) ==
    LET negate == Len(field) > 0 /\ field[1] = "!"
        r == _compile_op(IF negate THEN Tail(field) ELSE field, criteria)
    IN IF r.ok /\ negate THEN Compiled(negated(r.sql), r.args) ELSE r

\* compile_where(criteria)
RECURSIVE compile_where(_)
compile_where(criteria) ==
    IF criteria.kind = "list"
    THEN collect(<<" OR ">>,
                 [i \in 1..Len(criteria.items) |-> compile_where(criteria.items[i])])
    ELSE IF criteria.kind = "dict"
    THEN collect(<<" AND ">>,
                 [i \in 1..Len(criteria.items) |->
                     compile_op(criteria.items[i].field, criteria.items[i].items[1])])
    ELSE Raises("TypeError")

\* The criteria the compiler is called with.
MaxValue == 2       \* values compared against are 1..MaxValue
MaxArgs == 2        \* arguments after an operator
Fields == {<<"a">>, <<"b">>, <<"!", "a">>}
Vals == {PyInt(n) : n \in 1..MaxValue}
ArgLists == UNION {[1..k -> Vals] : k \in 0..MaxArgs}
OpNames == CompareOps \cup InOps \cup {"BETWEEN"}
Leaves ==
    Vals
    \cup {PyDict(<<>>), PyList(<<>>)}
    \cup {PyList(<<PyStr(op)>> \o a) : op \in OpNames, a \in ArgLists}
    \cup {PyList(<<PyInt(1)>> \o a) : a \in {<<>>, <<PyInt(1)>>}}
SomeLeaves ==
    {PyInt(1), PyDict(<<>>), PyList(<<>>)}
    \cup {PyList(<<PyStr(op)>> \o a) :
             op \in {"<", "IN", "BETWEEN"},
             a \in {<<>>, <<PyInt(2)>>, <<PyInt(1), PyInt(2)>>}}
FewLeaves == {PyInt(2), PyList(<<PyStr(">="), PyInt(1)>>), PyList(<<PyStr("LIKE")>>)}
Connected ==
    {PyList(<<PyStr(op)>> \o a) :
        op \in BoolOps, a \in UNION {[1..k -> SomeLeaves] : k \in 0..2}}
Nested ==
    {PyList(<<PyStr(op1), PyList(<<PyStr(op2), x, y>>), z>>) :
        op1 \in BoolOps, op2 \in BoolOps, x \in FewLeaves, y \in FewLeaves,
        z \in FewLeaves}
FieldCriteria == Leaves \cup Connected \cup Nested
Mappings ==
    {PyDict(<<>>)}
    \cup {PyDict(<<Pair(f, c)>>) : f \in Fields, c \in FieldCriteria}
    \cup {PyDict(<<Pair(f, c), Pair(g, d)>>) :
             f \in Fields, g \in Fields, c \in SomeLeaves, d \in FewLeaves}
FewMappings ==
    {PyDict(<<>>), PyInt(1),
     PyDict(<<Pair(<<"a">>, PyInt(1))>>),
     PyDict(<<Pair(<<"!", "a">>, PyList(<<PyStr("IN"), PyInt(1), PyInt(2)>>)),
              Pair(<<"b">>, PyList(<<PyStr(">"), PyInt(1)>>))>>),
     PyDict(<<Pair(<<"b">>, PyList(<<PyStr("OR"), PyInt(1), PyList(<<PyStr("<")>>)>>))>>),
     PyList(<<PyDict(<<Pair(<<"a">>, PyInt(2))>>),
              PyDict(<<Pair(<<"b">>, PyInt(1))>>)>>)}
Criteria ==
    Mappings
    \cup {PyInt(1), PyStr("a = 1")}
    \cup {PyList(a) : a \in UNION {[1..k -> FewMappings] : k \in 0..2}}

\* A call of the compiler and what it gave.
Call(op, status, error, field, criteria, sql, args) ==
    [op |-> op, status |-> status, error |-> error, tbl |-> "",
     field |-> field, criteria |-> criteria, sql |-> sql, args |-> args]

Compile(r) ==
    result' = [result EXCEPT !.status = IF r.ok THEN "ok" ELSE "raised",
                             !.error = r.error, !.sql = r.sql, !.args = r.args]

WhereInit ==
    /\ etype = [o \in Obj |-> "none"]
    /\ entity_id = [o \in Obj |-> NoId]
    /\ data_fields = [o \in Obj |-> NoFields]
    /\ changed_fields = [o \in Obj |-> {}]
    /\ delete = [o \in Obj |-> FALSE]
    /\ references = [o \in Obj |-> {}]
    /\ cache = {}
    /\ rows = {}
    /\ seq = [t \in AllTables |-> 0]
    /\ durable = {}
    /\ durableSeq = [t \in AllTables |-> 0]
    /\ stmts = <<>>
    /\ pc = "idle"
    /\ idx = 0
    /\ creations = <<>>
    /\ trace = <<>>
    /\ preId = [o \in Obj |-> NoId]
    /\ preDurable = {}
    /\ nops = 0
    /\ \/ \E c \in Criteria :
              result = Call("compile_where", "called", "", <<>>, c, <<>>, <<>>)
       \/ \E f \in Fields, c \in FieldCriteria :
              result = Call("compile_op", "called", "", f, c, <<>>, <<>>)

CompileWhere ==
    /\ result.op = "compile_where" /\ result.status = "called"
    /\ Compile(compile_where(result.criteria))
    /\ UNCHANGED <<etype, entity_id, data_fields, changed_fields, delete,
                   references, cache, rows, seq, durable, durableSeq, stmts,
                   pc, idx, creations, trace, preId, preDurable, nops>>

CompileOp ==
    /\ result.op = "compile_op" /\ result.status = "called"
    /\ Compile(compile_op(result.field, result.criteria))
    /\ UNCHANGED <<etype, entity_id, data_fields, changed_fields, delete,
                   references, cache, rows, seq, durable, durableSeq, stmts,
                   pc, idx, creations, trace, preId, preDurable, nops>>

WhereNext == CompileWhere \/ CompileOp

WhereSpec == WhereInit /\ [][WhereNext]_vars

----------------------------------------------------------------------------
\* The FieldSpec classes of fieldtracker/model/entity.py and their four
\* conversions.
\*
\* A Python value is a record with its kind.  A str is the sequence of its
\* characters, or of the pieces it is compared by as a whole (the value of
\* an enumeration member).  A date text is the form it is written in with
\* the numbers it holds.  An exception raised stands in place of the value.
Str(chars) == [kind |-> "str", chars |-> chars]
None == [kind |-> "NoneType"]
Number(n) == [kind |-> "int", n |-> n]
Member(enum, name, value) == [kind |-> "enum", enum |-> enum, name |-> name, value |-> value]
Date(y, m, d) == [kind |-> "date", y |-> y, m |-> m, d |-> d]
DateText(form, y, m, d) == [kind |-> "str", form |-> form, y |-> y, m |-> m, d |-> d]
DateTime(y, m, d, s, us, tz) ==
    [kind |-> "datetime", y |-> y, m |-> m, d |-> d, s |-> s, us |-> us, tz |-> tz]
EntityValue(o) == [kind |-> "entity", ent |-> o]
Resolver(o) == [kind |-> "function", ent |-> o]
Exception(error) == [kind |-> "raise", error |-> error]

\* The enumerations behind the enum field specs: EventType, CompetitorState
\* (names and values alike) and MessageSeverity (integer values).
Members(enum) ==
    CASE enum = "EventType" ->
            {Member(enum, "EnduranceRide", Str(<<"ENDURANCE_RIDE">>)),
             Member(enum, "CarRally", Str(<<"CAR_RALLY">>)),
             Member(enum, "BicycleRide", Str(<<"BICYCLE_RIDE">>))}
      [] enum = "CompetitorState" ->
            {Member(enum, "VALID", Str(<<"VALID">>)),
             Member(enum, "WITHDRAWN", Str(<<"WITHDRAWN">>)),
             Member(enum, "VETOUT", Str(<<"VETOUT">>))}
      [] enum = "MessageSeverity" ->
            {Member(enum, "Emergency", Number(0)),
             Member(enum, "Alert", Number(1)),
             Member(enum, "Critical", Number(2))}

\* enum_class(value): the member itself, the member of that value, else
\* ValueError.
enum_class(enum, value) ==
    IF value \in Members(enum) THEN value
    ELSE IF \E m \in Members(enum) : m.value = value
    THEN CHOOSE m \in Members(enum) : m.value = value
    ELSE Exception("ValueError")

\* int(raw, base=10) of a str: white space around it dropped, one sign, then
\* digits with single underscores between them.
DigitChars == <<"0", "1", "2", "3", "4", "5", "6", "7", "8", "9">>
IsDigit(c) == \E d \in 1..10 : DigitChars[d] = c
DigitOf(c) == (CHOOSE d \in 1..10 : DigitChars[d] = c) - 1

RECURSIVE strip(_)
strip(chars) ==
    IF chars = <<>> THEN chars
    ELSE IF chars[1] = " " THEN strip(Tail(chars))
    ELSE IF chars[Len(chars)] = " " THEN strip(SubSeq(chars, 1, Len(chars) - 1))
    ELSE chars

RECURSIVE DigitsValue(_)
DigitsValue(ds) ==
    IF ds = <<>> THEN 0
    ELSE DigitsValue(SubSeq(ds, 1, Len(ds) - 1)) * 10 + DigitOf(ds[Len(ds)])

int(raw) ==
    IF raw.kind # "str" \/ "chars" \notin DOMAIN raw THEN Exception("TypeError")
    ELSE LET s == strip(raw.chars)
             signed == s # <<>> /\ s[1] \in {"+", "-"}
             body == IF signed THEN Tail(s) ELSE s
             valid == /\ body # <<>>
                      /\ \A i \in 1..Len(body) : IsDigit(body[i]) \/ body[i] = "_"
                      /\ body[1] # "_" /\ body[Len(body)] # "_"
                      /\ \A i \in 1..(Len(body) - 1) : ~(body[i] = "_" /\ body[i + 1] = "_")
             n == DigitsValue(SelectSeq(body, IsDigit))
         IN IF ~valid THEN Exception("ValueError")
            ELSE Number(IF signed /\ s[1] = "-" THEN 0 - n ELSE n)

\* str(value) of an int.
RECURSIVE digits(_)
digits(n) ==
    IF n < 10 THEN <<DigitChars[n + 1]>>
    ELSE digits(n \div 10) \o <<DigitChars[(n % 10) + 1]>>

str(value) ==
    Str(IF value.n < 0 THEN <<"-">> \o digits(0 - value.n) ELSE digits(value.n))

\* datetime.date.fromisoformat(raw) and date.isoformat(): the extended form
\* YYYY-MM-DD is read and written, the basic form YYYYMMDD only read.
DaysIn(y, m) ==
    IF m = 2 THEN (IF y % 4 = 0 /\ (y % 100 # 0 \/ y % 400 = 0) THEN 29 ELSE 28)
    ELSE IF m \in {4, 6, 9, 11} THEN 30 ELSE 31

fromisoformat(raw) ==
    IF raw.kind # "str" THEN Exception("TypeError")
    ELSE IF "form" \notin DOMAIN raw THEN Exception("ValueError")
    ELSE IF /\ raw.form \in {"YYYY-MM-DD", "YYYYMMDD"}
            /\ raw.m \in 1..12 /\ raw.d \in 1..DaysIn(raw.y, raw.m)
    THEN Date(raw.y, raw.m, raw.d)
    ELSE Exception("ValueError")

isoformat(value) == DateText("YYYY-MM-DD", value.y, value.m, value.d)

\* A field specification: its class and what it was constructed with.
FieldSpecs ==
    {[cls |-> "TextFieldSpec"],
     [cls |-> "IntFieldSpec", minimum |-> 0],
     [cls |-> "DateFieldSpec"],
     [cls |-> "DateTimeFieldSpec"],
     [cls |-> "EnumTextFieldSpec", enum |-> "EventType"],
     [cls |-> "EnumTextFieldSpec", enum |-> "CompetitorState"],
     [cls |-> "EnumIntFieldSpec", enum |-> "MessageSeverity"],
     [cls |-> "ForeignFieldSpec", entity_class |-> "event"]}

\* spec.check(value): the exception it raises, "" when none.
spec_check(spec, value) ==
    CASE spec.cls \in {"IntFieldSpec", "DateFieldSpec", "DateTimeFieldSpec"} ->
            IF spec.cls = "IntFieldSpec" /\ value.kind = "int"
            THEN (IF value.n < spec.minimum THEN "ValueError" ELSE "")
            ELSE IF spec.cls = "IntFieldSpec" THEN "TypeError" ELSE ""
      [] spec.cls \in {"EnumTextFieldSpec", "EnumIntFieldSpec"} ->
            IF enum_class(spec.enum, value).kind = "raise" THEN "ValueError" ELSE ""
      [] spec.cls = "ForeignFieldSpec" ->
            IF value.kind = "entity" /\ etype[value.ent] = spec.entity_class
            THEN "" ELSE "TypeError"
      [] OTHER -> ""

\* spec.from_user(value, entity=ent)
from_user(spec, value) ==
    CASE spec.cls = "TextFieldSpec" ->
            IF value = Str(<<>>) THEN None ELSE value
      [] spec.cls = "IntFieldSpec" -> int(value)
      [] spec.cls \in {"DateFieldSpec", "DateTimeFieldSpec"} -> fromisoformat(value)
      [] spec.cls \in {"EnumTextFieldSpec", "EnumIntFieldSpec"} ->
            enum_class(spec.enum, value)
      [] OTHER -> value

\* spec.to_user(value, entity=ent).  DateTimeFieldSpec.to_user is declared
\* (self, db, entity, value): the call binds value to db and has no value.
to_user(spec, value) ==
    CASE spec.cls = "TextFieldSpec" ->
            IF value = None THEN Str(<<>>) ELSE value
      [] spec.cls = "IntFieldSpec" -> str(value)
      [] spec.cls = "DateFieldSpec" -> isoformat(value)
      [] spec.cls = "DateTimeFieldSpec" -> Exception("TypeError")
      [] spec.cls \in {"EnumTextFieldSpec", "EnumIntFieldSpec"} -> Str(<<value.name>>)
      [] OTHER -> value

\* spec.to_db(value, entity=ent).  DateTimeFieldSpec.to_db is declared
\* (self, db, entity, value) as well.  ForeignFieldSpec.to_db gives the id
\* of the target (through IntFieldSpec.to_db, the identity) or the closure.
spec_to_db(spec, value) ==
    CASE spec.cls = "DateFieldSpec" -> to_user(spec, value)
      [] spec.cls = "DateTimeFieldSpec" -> Exception("TypeError")
      [] spec.cls \in {"EnumTextFieldSpec", "EnumIntFieldSpec"} -> value.value
      [] spec.cls = "ForeignFieldSpec" ->
            IF to_db(value.ent).deferred THEN Resolver(value.ent)
            ELSE Number(to_db(value.ent).v)
      [] OTHER -> value

\* spec.from_db(value, entity=ent).  ForeignFieldSpec.from_db iterates
\* db.fetch(entity_class, {field: id}), which raises in Entity.select.
from_db(spec, value) ==
    CASE spec.cls = "DateFieldSpec" -> from_user(spec, value)
      [] spec.cls = "DateTimeFieldSpec" -> Exception("TypeError")
      [] spec.cls \in {"EnumTextFieldSpec", "EnumIntFieldSpec"} ->
            enum_class(spec.enum, value)
      [] spec.cls = "ForeignFieldSpec" -> Exception(select(spec.entity_class))
      [] OTHER -> value

\* The values the conversions are called with.
MaxText == 3        \* characters of a typed text
Typed == {"0", "1", "7", "+", "-", " ", "_", "x"}
Texts == {Str(chars) : chars \in UNION {[1..k -> Typed] : k \in 0..MaxText}}
DateTexts ==
    {DateText(form, y, m, d) :
        form \in {"YYYY-MM-DD", "YYYYMMDD", "YYYY-M-D"}, y \in {2023, 2024},
        m \in {1, 2, 13}, d \in {1, 29, 30}}
EnumTexts ==
    {m.value : m \in Members("EventType") \cup Members("CompetitorState")}
        \cup {Str(<<m.name>>) : m \in Members("EventType") \cup Members("MessageSeverity")}
UserValues(spec) ==
    CASE spec.cls \in {"TextFieldSpec", "IntFieldSpec"} -> Texts
      [] spec.cls \in {"DateFieldSpec", "DateTimeFieldSpec"} ->
            DateTexts \cup {Str(<<>>), Str(<<"x">>)}
      [] spec.cls = "EnumTextFieldSpec" -> EnumTexts \cup Members(spec.enum)
      [] spec.cls = "EnumIntFieldSpec" ->
            EnumTexts \cup Members(spec.enum) \cup {Number(n) : n \in 0..3}
      [] spec.cls = "ForeignFieldSpec" -> {EntityValue(o) : o \in Live} \cup {None}

\* The values of the fields themselves.
NativeValues(spec) ==
    CASE spec.cls = "TextFieldSpec" -> Texts \cup {None}
      [] spec.cls = "IntFieldSpec" -> {Number(n) : n \in (0 - 1)..12}
      [] spec.cls = "DateFieldSpec" ->
            {Date(y, m, d) : y \in {2023, 2024}, m \in {1, 2, 12}, d \in {1, 28, 29}}
                \ {Date(2023, 2, 29)}
      [] spec.cls = "DateTimeFieldSpec" ->
            {DateTime(2024, 1, d, s, us, tz) :
                d \in {1, 2}, s \in {0, 1}, us \in {0, 600}, tz \in {"UTC", "none"}}
      [] spec.cls \in {"EnumTextFieldSpec", "EnumIntFieldSpec"} -> Members(spec.enum)
      [] spec.cls = "ForeignFieldSpec" -> {EntityValue(o) : o \in Live}

\* A conversion there and back: the value it started from, the converted
\* value in between and the value that came back.
Conversion(op, status, error, spec, v, mid, out) ==
    [op |-> op, status |-> status, error |-> error, tbl |-> "",
     spec |-> spec, v |-> v, mid |-> mid, out |-> out]

\* The store is the one of EntityInit.
ConversionInit ==
    /\ etype = [o \in Obj |-> IF o = 1 THEN "event"
                              ELSE IF o \in {2, 3} THEN "location" ELSE "none"]
    /\ entity_id = [o \in Obj |-> IF o \in {1, 2} THEN 1 ELSE IF o = 3 THEN 2 ELSE NoId]
    /\ data_fields = [o \in Obj |-> IF o = 2 THEN [fk |-> 1, num |-> 0]
                                    ELSE IF o = 3 THEN [fk |-> 1, num |-> 1]
                                    ELSE NoFields]
    /\ changed_fields = [o \in Obj |-> {}]
    /\ delete = [o \in Obj |-> FALSE]
    /\ references = [o \in Obj |->
                        IF o = 1
                        THEN {[key |-> ref("location", NoId, 2), ent |-> 2],
                              [key |-> ref("location", NoId, 3), ent |-> 3]}
                        ELSE {}]
    /\ cache = {[tbl |-> "event", key |-> 1, ent |-> 1],
                [tbl |-> "location", key |-> 1, ent |-> 2],
                [tbl |-> "location", key |-> 2, ent |-> 3]}
    /\ rows = {[tbl |-> "event", id |-> 1, fk |-> 0, num |-> 0],
               [tbl |-> "location", id |-> 1, fk |-> 1, num |-> 0],
               [tbl |-> "location", id |-> 2, fk |-> 1, num |-> 1]}
    /\ seq = [t \in AllTables |-> IF t = "event" THEN 1
                                  ELSE IF t = "location" THEN 2 ELSE 0]
    /\ durable = rows
    /\ durableSeq = seq
    /\ stmts = <<>>
    /\ pc = "idle"
    /\ idx = 0
    /\ creations = <<>>
    /\ trace = <<>>
    /\ preId = [o \in Obj |-> NoId]
    /\ preDurable = {}
    /\ nops = 0
    /\ \E spec \in FieldSpecs :
          \/ \E v \in UserValues(spec) :
                result = Conversion("uservalue", "called", "", spec, v, None, None)
          \/ \E v \in NativeValues(spec) :
                result = Conversion("dbvalue", "called", "", spec, v, None, None)

\* What a conversion leaves: the value, or the exception it raised; refused
\* tells a value that was not accepted from a conversion that failed.
Converted(status, value, refused) ==
    IF value.kind = "raise"
    THEN result' = [result EXCEPT !.status = IF refused THEN "rejected" ELSE "raised",
                                  !.error = value.error]
    ELSE result' = [result EXCEPT !.status = status,
                                  !.mid = IF status = "converted" THEN value ELSE @,
                                  !.out = IF status = "ok" THEN value ELSE @]

conversionFrame ==
    <<etype, entity_id, data_fields, changed_fields, delete, references, cache,
      rows, seq, durable, durableSeq, stmts, pc, idx, creations, trace, preId,
      preDurable, nops>>

\* entity.uservalue[name] = v: spec.from_user(v), then Entity.__setitem__
\* checks the native value.
FromUser ==
    /\ result.op = "uservalue" /\ result.status = "called"
    /\ LET native == from_user(result.spec, result.v)
       IN IF native.kind # "raise" /\ spec_check(result.spec, native) # ""
          THEN Converted("converted", Exception(spec_check(result.spec, native)), TRUE)
          ELSE Converted("converted", native, TRUE)
    /\ UNCHANGED conversionFrame

\* entity.uservalue[name]: spec.to_user of the field's value.
ToUser ==
    /\ result.op = "uservalue" /\ result.status = "converted"
    /\ Converted("ok", to_user(result.spec, result.mid), FALSE)
    /\ UNCHANGED conversionFrame

\* entity.dbvalue[name]: spec.to_db of the field's value, when the value
\* passes spec.check.
ToDb ==
    /\ result.op = "dbvalue" /\ result.status = "called"
    /\ IF spec_check(result.spec, result.v) # ""
       THEN Converted("converted", Exception(spec_check(result.spec, result.v)), TRUE)
       ELSE Converted("converted", spec_to_db(result.spec, result.v), FALSE)
    /\ UNCHANGED conversionFrame

\* entity.dbvalue[name] = stored: spec.from_db(stored).
FromDb ==
    /\ result.op = "dbvalue" /\ result.status = "converted"
    /\ Converted("ok", from_db(result.spec, result.mid), FALSE)
    /\ UNCHANGED conversionFrame

ConversionNext == FromUser \/ ToUser \/ ToDb \/ FromDb

ConversionSpec == ConversionInit /\ [][ConversionNext]_vars

----------------------------------------------------------------------------
\* FieldSpec.check of the range-bounded specs and of ForeignFieldSpec, called
\* on its own.

MaxBound == 2       \* minimum and maximum range over -1..MaxBound

\* minimum= / maximum= of RangeFieldSpec.__init__: None or a number.
RangeBounds == {None} \cup {Number(n) : n \in -1..MaxBound}

\* Values handed to RangeFieldSpec.check: numbers around the bounds, and two
\* values Python does not order against a number.
RangeValues == {Number(n) : n \in -2..(MaxBound + 1)} \cup {None, Str(<<"1">>)}

\* Values handed to ForeignFieldSpec.check.
ForeignValues == {EntityValue(o) : o \in {1, 2, 3}} \cup {None, Number(1), Str(<<"1">>)}

\* Variant: the bounds themselves refused.
RangeFieldSpec_check_exclusive(minimum, maximum, value) ==
    IF minimum.kind # "NoneType" /\ value.kind # "int" THEN "TypeError"
    ELSE IF minimum.kind # "NoneType" /\ value.n <= minimum.n THEN "ValueError"
    ELSE IF maximum.kind # "NoneType" /\ value.kind # "int" THEN "TypeError"
    ELSE IF maximum.kind # "NoneType" /\ value.n >= maximum.n THEN "ValueError"
    ELSE ""

\* RangeFieldSpec.check(value): the exception it raises, "" when none.  A
\* comparison of a number with None or a str raises TypeError.
RangeFieldSpec_check(minimum, maximum, value) ==
    IF minimum.kind # "NoneType" /\ value.kind # "int" THEN "TypeError"
    ELSE IF minimum.kind # "NoneType" /\ value.n < minimum.n THEN "ValueError"
    ELSE IF maximum.kind # "NoneType" /\ value.kind # "int" THEN "TypeError"
    ELSE IF maximum.kind # "NoneType" /\ value.n > maximum.n THEN "ValueError"
    ELSE ""

\* ForeignFieldSpec.check(value): isinstance(value, self.entity_class).
ForeignFieldSpec_check(entity_class, value) ==
    IF value.kind = "entity" /\ etype[value.ent] = entity_class THEN "" ELSE "TypeError"

\* A call of check and what it gave.
Check(op, status, error, minimum, maximum, entity_class, v) ==
    [op |-> op, status |-> status, error |-> error, tbl |-> "",
     minimum |-> minimum, maximum |-> maximum, entity_class |-> entity_class, v |-> v]

\* The store is the one of EntityInit.
CheckInit ==
    /\ etype = [o \in Obj |-> IF o = 1 THEN "event"
                              ELSE IF o \in {2, 3} THEN "location" ELSE "none"]
    /\ entity_id = [o \in Obj |-> IF o \in {1, 2} THEN 1 ELSE IF o = 3 THEN 2 ELSE NoId]
    /\ data_fields = [o \in Obj |-> IF o = 2 THEN [fk |-> 1, num |-> 0]
                                    ELSE IF o = 3 THEN [fk |-> 1, num |-> 1]
                                    ELSE NoFields]
    /\ changed_fields = [o \in Obj |-> {}]
    /\ delete = [o \in Obj |-> FALSE]
    /\ references = [o \in Obj |->
                        IF o = 1
                        THEN {[key |-> ref("location", NoId, 2), ent |-> 2],
                              [key |-> ref("location", NoId, 3), ent |-> 3]}
                        ELSE {}]
    /\ cache = {[tbl |-> "event", key |-> 1, ent |-> 1],
                [tbl |-> "location", key |-> 1, ent |-> 2],
                [tbl |-> "location", key |-> 2, ent |-> 3]}
    /\ rows = {[tbl |-> "event", id |-> 1, fk |-> 0, num |-> 0],
               [tbl |-> "location", id |-> 1, fk |-> 1, num |-> 0],
               [tbl |-> "location", id |-> 2, fk |-> 1, num |-> 1]}
    /\ seq = [t \in AllTables |-> IF t = "event" THEN 1
                                  ELSE IF t = "location" THEN 2 ELSE 0]
    /\ durable = rows
    /\ durableSeq = seq
    /\ stmts = <<>>
    /\ pc = "idle"
    /\ idx = 0
    /\ creations = <<>>
    /\ trace = <<>>
    /\ preId = [o \in Obj |-> NoId]
    /\ preDurable = {}
    /\ nops = 0
    /\ \/ \E minimum \in RangeBounds, maximum \in RangeBounds, v \in RangeValues :
              result = Check("range_check", "called", "", minimum, maximum, "", v)
       \/ \E entity_class \in EntityTables, v \in ForeignValues :
              result = Check("foreign_check", "called", "", None, None, entity_class, v)

Checked(error) ==
    result' = [result EXCEPT !.status = IF error = "" THEN "ok" ELSE "raised",
                             !.error = error]

\* spec.check(v) on a RangeFieldSpec(minimum=..., maximum=...).
RangeCheck ==
    /\ result.op = "range_check" /\ result.status = "called"
    /\ Checked(RangeFieldSpec_check(result.minimum, result.maximum, result.v))
    /\ UNCHANGED conversionFrame

\* spec.check(v) on a ForeignFieldSpec(entity_class).
ForeignCheck ==
    /\ result.op = "foreign_check" /\ result.status = "called"
    /\ Checked(ForeignFieldSpec_check(result.entity_class, result.v))
    /\ UNCHANGED conversionFrame

CheckNext == RangeCheck \/ ForeignCheck

CheckSpec == CheckInit /\ [][CheckNext]_vars

----------------------------------------------------------------------------
\* fieldtracker/eventsetup.py: the event set-up dialogues and their save
\* action.  The dialogue is opened on a new event; the user adds locations,
\* divisions, competitors, stages and checkpoints, each through a modal
\* dialogue that is accepted or cancelled, and saves.  An event that has an
\* id cannot be saved at all (its statement is an UPDATE, which raises) and
\* nothing can be loaded (every fetch raises), so every entity is pending.
\*
\* The same variables are used; an entity has the foreign-key fields
\* event_id, div_id, stg_id and loc_id, NoObj where its type has none.

MaxSetupObj == 7    \* in-memory Entity objects in a run of SetupSpec

SetupObj == 1..MaxSetupObj

SetupTables == {"event", "location", "division", "competitor", "stage", "checkpoint"}

\* _ENTITY_FIELDS of each type, the ForeignFieldSpec entries: field name and
\* table of the entity class.
ForeignFields(t) ==
    CASE t = "location" -> {<<"event_id", "event">>}
      [] t = "division" -> {<<"event_id", "event">>}
      [] t = "competitor" -> {<<"div_id", "division">>}
      [] t = "stage" -> {<<"div_id", "division">>}
      [] t = "checkpoint" -> {<<"div_id", "division">>, <<"stg_id", "stage">>,
                              <<"loc_id", "location">>}
      [] OTHER -> {}

NoForeign == [event_id |-> NoObj, div_id |-> NoObj, stg_id |-> NoObj, loc_id |-> NoObj]

\* Entity._link_all / _unlink_all of the pending object o of type t reading
\* the foreign keys fields, on the indexes refs.
setup_link_all(refs, o, t, fields) ==
    [e \in SetupObj |->
        IF \E f \in ForeignFields(t) : fields[f[1]] = e
        THEN link(refs[e], ref(t, NoId, o), o)
        ELSE refs[e]]

\* Variant: a cancelled entity left in the indexes of its targets.
setup_unlink_all_kept(refs, o, t, fields) == refs

setup_unlink_all(refs, o, t, fields) ==
    [e \in SetupObj |->
        IF \E f \in ForeignFields(t) : fields[f[1]] = e
        THEN unlink(refs[e], ref(t, NoId, o), o)
        ELSE refs[e]]

\* The values of a dict in insertion order.  The pending entities of one
\* index were inserted in the order of their creation, the order of the
\* handles.
RECURSIVE values(_)
values(S) ==
    IF S = {} THEN <<>>
    ELSE LET first == CHOOSE o \in S : \A x \in S : o <= x
         IN <<first>> \o values(S \ {first})

\* db.create(etype, ...) in an _add_... handler, then the edit dialogue of
\* the new entity: cancelled, the handler sets delete = True, which unlinks
\* the entity again.  What the user adds below a new division or stage
\* before cancelling its dialogue hangs below an unlinked entity, as it does
\* when added here to a cancelled one.
Add(t, fields, accepted) ==
    /\ pc = "idle"
    /\ \E h \in SetupObj : etype[h] = "none"
    /\ LET h == CHOOSE x \in SetupObj :
                    etype[x] = "none" /\ \A g \in 1..(x - 1) : etype[g] # "none"
           linked == setup_link_all(references, h, t, fields)
       IN /\ etype' = [etype EXCEPT ![h] = t]
          /\ data_fields' = [data_fields EXCEPT ![h] = fields]
          /\ delete' = [delete EXCEPT ![h] = ~accepted]
          /\ references' = IF accepted THEN linked
                           ELSE setup_unlink_all(linked, h, t, fields)
    /\ result' = [op |-> "add", status |-> IF accepted THEN "ok" ELSE "cancelled",
                  error |-> "", tbl |-> t]
    /\ UNCHANGED <<entity_id, changed_fields, cache, storeVars, stmts, commitVars,
                   trace, preId, preDurable, nops>>

\* The event of the dialogue.
TheEvent == 1

\* EventSetupDialogue._add_location
AddLocation(accepted) ==
    /\ etype[TheEvent] = "event"
    /\ Add("location", [NoForeign EXCEPT !.event_id = TheEvent], accepted)

\* EventSetupDialogue._add_division
AddDivision(accepted) ==
    /\ etype[TheEvent] = "event"
    /\ Add("division", [NoForeign EXCEPT !.event_id = TheEvent], accepted)

\* _DivisionEditDialogue._add_competitor, in the dialogue of division d.
AddCompetitor(d, accepted) ==
    /\ etype[d] = "division"
    /\ Add("competitor", [NoForeign EXCEPT !.div_id = d], accepted)

\* _DivisionEditDialogue._add_stage, in the dialogue of division d.
AddStage(d, accepted) ==
    /\ etype[d] = "division"
    /\ Add("stage", [NoForeign EXCEPT !.div_id = d], accepted)

\* _StageEditDialogue._add_checkpoint, in the dialogue of stage s: the
\* division is the stage's, the location the first of the event's, and
\* without a location the handler returns.
AddCheckpoint(s, accepted) ==
    /\ etype[s] = "stage"
    /\ get_references(TheEvent, "location") # {}
    /\ Add("checkpoint",
           [NoForeign EXCEPT !.div_id = getitem(s, "div_id"),
                             !.stg_id = s,
                             !.loc_id = Head(values(get_references(TheEvent, "location")))],
           accepted)

\* _CheckpointEditDialogue accepted with another location selected:
\* checkpoint["loc_id"] = selection stages the value, unlinks the checkpoint
\* from the location it read and links it at the new one.
EditCheckpoint(c, loc) ==
    /\ pc = "idle"
    /\ etype[c] = "checkpoint"
    /\ ~delete[c]
    /\ loc \in get_references(TheEvent, "location")
    /\ loc # getitem(c, "loc_id")
    /\ changed_fields' = [changed_fields EXCEPT ![c] = {<<"loc_id", loc>>}]
    /\ references' =
          [references EXCEPT
              ![getitem(c, "loc_id")] = unlink(@, ref("checkpoint", NoId, c), c),
              ![loc] = link(@, ref("checkpoint", NoId, c), c)]
    /\ result' = [op |-> "edit", status |-> "ok", error |-> "", tbl |-> "checkpoint"]
    /\ UNCHANGED <<etype, entity_id, data_fields, delete, cache, storeVars, stmts,
                   commitVars, trace, preId, preDurable, nops>>

\* EntityDbValues.statement of the pending entity o: None when it is marked
\* for deletion, else the INSERT of its fields, each foreign key through
\* ForeignFieldSpec.to_db.
setup_statement(o) ==
    IF delete[o] THEN [action |-> "None", table |-> etype[o], ent |-> o, args |-> <<>>]
    ELSE [action |-> "INSERT",
          table |-> etype[o],
          ent |-> o,
          args |-> [f \in ForeignFields(etype[o]) |-> to_db(getitem(o, f[1]))]]

\* The loop over the stages of a division: each stage, then its checkpoints.
RECURSIVE gather_stages(_)
gather_stages(ss) ==
    IF ss = <<>> THEN <<>>
    ELSE <<Head(ss)>> \o values(get_references(Head(ss), "checkpoint"))
             \o gather_stages(Tail(ss))

\* The loop over the divisions: each division, its competitors, its stages.
RECURSIVE gather_divisions(_)
gather_divisions(ds) ==
    IF ds = <<>> THEN <<>>
    ELSE <<Head(ds)>> \o values(get_references(Head(ds), "competitor"))
             \o gather_stages(values(get_references(Head(ds), "stage")))
             \o gather_divisions(Tail(ds))

\* Variant: the divisions gathered before the locations.
gather_locations_last(e) ==
    <<e>> \o gather_divisions(values(get_references(e, "division")))
          \o values(get_references(e, "location"))

\* The entities whose statements EventSetupDialogue._commit gathers, in
\* order: the event, its locations, then division by division.
gather(e) ==
    <<e>> \o values(get_references(e, "location"))
          \o gather_divisions(values(get_references(e, "division")))

\* filter(lambda s : s is not None, statements)
RECURSIVE not_none(_)
not_none(ss) ==
    IF ss = <<>> THEN <<>>
    ELSE IF Head(ss).action = "None" THEN not_none(Tail(ss))
    ELSE <<Head(ss)>> \o not_none(Tail(ss))

\* EventSetupDialogue._commit: the statements are gathered and filtered and
\* Database.commit is entered with them (the batch is never empty: the new
\* event has a statement).  What commit does with a batch is the subject of
\* Spec; the run ends here.
Save ==
    /\ pc = "idle"
    /\ stmts' = not_none([k \in 1..Len(gather(TheEvent)) |->
                              setup_statement(gather(TheEvent)[k])])
    /\ pc' = "execute"
    /\ idx' = 1
    /\ result' = Op("commit", "running", "")
    /\ UNCHANGED <<entityVars, cache, storeVars, creations, trace, preId,
                   preDurable, nops>>

SetupInit ==
    /\ etype = [o \in SetupObj |-> IF o = TheEvent THEN "event" ELSE "none"]
    /\ entity_id = [o \in SetupObj |-> NoId]
    /\ data_fields = [o \in SetupObj |-> NoForeign]
    /\ changed_fields = [o \in SetupObj |-> {}]
    /\ delete = [o \in SetupObj |-> FALSE]
    /\ references = [o \in SetupObj |-> {}]
    /\ cache = {}
    /\ rows = {}
    /\ seq = [t \in SetupTables |-> 0]
    /\ durable = {}
    /\ durableSeq = [t \in SetupTables |-> 0]
    /\ stmts = <<>>
    /\ pc = "idle"
    /\ idx = 0
    /\ creations = <<>>
    /\ result = Op("call", "ok", "")
    /\ trace = <<>>
    /\ preId = [o \in SetupObj |-> NoId]
    /\ preDurable = {}
    /\ nops = 0

SetupNext ==
    \/ \E accepted \in BOOLEAN : AddLocation(accepted)
    \/ \E accepted \in BOOLEAN : AddDivision(accepted)
    \/ \E d \in SetupObj, accepted \in BOOLEAN : AddCompetitor(d, accepted)
    \/ \E d \in SetupObj, accepted \in BOOLEAN : AddStage(d, accepted)
    \/ \E s \in SetupObj, accepted \in BOOLEAN : AddCheckpoint(s, accepted)
    \/ \E c \in SetupObj, loc \in SetupObj : EditCheckpoint(c, loc)
    \/ Save

SetupSpec == SetupInit /\ [][SetupNext]_vars

----------------------------------------------------------------------------
\* Vocabulary of the properties.

Returned == pc = "idle" /\ result = Op("commit", "returned", "")
Raised == pc = "idle" /\ result.op = "commit" /\ result.status = "raised"

Events == {trace[k] : k \in 1..Len(trace)}

\* The statement whose execution (arguments, cur.execute, rowid_callback)
\* raised in the last commit.
FailedAt(j) == Event("failed", j, 0) \in Events

\* The row id statement i's rowid_callback was called with.
HasRowId(i) == \E e \in Events : e.ev = "rowid" /\ e.stmt = i /\ e.arg # NoId
RowIdOf(i) == (CHOOSE e \in Events : e.ev = "rowid" /\ e.stmt = i /\ e.arg # NoId).arg

\* Position of an event in the trace.
Pos(e) == CHOOSE k \in 1..Len(trace) : trace[k] = e

\* Statement i is the INSERT of an entity.
IsEntityInsert(i) == stmts[i].rowid_callback = "_set_entity_id"

----------------------------------------------------------------------------
\* C1: when the execution of a statement of the batch fails, commit() raises
\* that error, the database holds what it held when commit() was called and
\* the connection sees nothing else: no row of the batch is left.
C1_AllOrNothing ==
    (pc = "idle" /\ result.op = "commit" /\ \E j \in 1..Len(stmts) : FailedAt(j))
        => /\ result.status = "raised"
           /\ result.error \in {"ValueError", "OperationalError", "IntegrityError",
                                "CallbackError"}
           /\ durable = preDurable
           /\ rows = durable
           /\ seq = durableSeq

\* A unique-constraint violation on the third statement, after two inserts.
C1_Witness ==
    /\ Raised
    /\ result.error = "IntegrityError"
    /\ FailedAt(3)
    /\ Event("rowid", 1, NoId) \in Events
    /\ Event("rowid", 2, NoId) \in Events

\* C2: whenever commit() raises, every entity that was pending when it was
\* called is pending again.
C2_RaisedCommitUnsetsIds ==
    Raised => \A o \in Live : preId[o] = NoId => entity_id[o] = NoId

\* C3: every notification callback runs after the transaction was committed,
\* which is after every identity callback of the batch was called with its
\* row id; from the first notification on the rows of the batch are durable.
C3_IdsThenCommitThenNotify ==
    \A e \in Events :
        e.ev = "notify" =>
            /\ Event("conn_commit", 0, 0) \in Events
            /\ Pos(Event("conn_commit", 0, 0)) < Pos(e)
            /\ \A i \in 1..Len(stmts) :
                  IsEntityInsert(i) =>
                     /\ HasRowId(i)
                     /\ Pos(Event("rowid", i, RowIdOf(i))) < Pos(Event("conn_commit", 0, 0))
            /\ durable = rows

\* A returned commit of at least two entity inserts, all notified.
C3_Witness ==
    /\ Returned
    /\ Len(stmts) >= 2
    /\ \A i \in 1..Len(stmts) : IsEntityInsert(i) /\ Event("notify", i, 0) \in Events

\* C4: after a returned commit, every entity inserted by the batch is in the
\* cache of its table under its new id.
C4_InsertedEntityCached ==
    Returned =>
        \A i \in 1..Len(stmts) :
            IsEntityInsert(i) =>
                [tbl |-> stmts[i].table, key |-> entity_id[stmts[i].ent],
                 ent |-> stmts[i].ent] \in cache

\* C5: a child inserted after its pending parent stores the id the parent's
\* insert has just generated, and its resolver keeps evaluating to that id.
ParentThenChild(i, j) ==
    /\ i < j
    /\ IsEntityInsert(i)
    /\ IsEntityInsert(j)
    /\ stmts[j].fk.deferred
    /\ stmts[j].fk.v = stmts[i].ent
    /\ preId[stmts[i].ent] = NoId
    /\ \A k \in 1..Len(stmts) : k # i => stmts[k].ent # stmts[i].ent

C5_ChildStoresParentId ==
    Returned =>
        \A i, j \in 1..Len(stmts) :
            ParentThenChild(i, j) =>
                /\ [tbl |-> stmts[j].table, id |-> RowIdOf(j), fk |-> RowIdOf(i),
                    num |-> stmts[j].num] \in durable
                /\ ~Unresolved(stmts[j])
                /\ get_value(stmts[j]) = RowIdOf(i)

C5_Witness ==
    /\ Returned
    /\ \E i, j \in 1..Len(stmts) : ParentThenChild(i, j)

\* C6: a statement whose foreign key is deferred to a target that was pending
\* when commit() was called executes only if an insert of the target precedes
\* it in the batch; otherwise its resolver raises ValueError, commit() raises
\* it at once and nothing of the batch is left.
NeedsTarget(j) == stmts[j].fk.deferred /\ preId[stmts[j].fk.v] = NoId
TargetPrecedes(j) ==
    \E i \in 1..(j - 1) : IsEntityInsert(i) /\ stmts[i].ent = stmts[j].fk.v

\* Statement j has been executed by the current/last commit.
Executed(j) ==
    /\ result.op = "commit"
    /\ j \in 1..Len(stmts)
    /\ \/ pc = "execute" /\ idx > j
       \/ pc \in {"conn_commit", "notify"}
       \/ Returned
       \/ Raised /\ result.error = "CommitError"
       \/ \E k \in 1..Len(stmts) : FailedAt(k) /\ k > j

C6_ResolverNeedsPrecedingInsert ==
    \A j \in 1..Len(stmts) :
        /\ (Executed(j) /\ NeedsTarget(j)) => TargetPrecedes(j)
        /\ (FailedAt(j) /\ NeedsTarget(j) /\ ~TargetPrecedes(j)) =>
              /\ Raised
              /\ result.error = "ValueError"
              /\ durable = preDurable
              /\ rows = durable
              /\ \A o \in Live : preId[o] = NoId => entity_id[o] = NoId

\* The child before its parent.
C6_Witness ==
    /\ Raised
    /\ result.error = "ValueError"
    /\ FailedAt(1)
    /\ Len(stmts) = 2
    /\ IsEntityInsert(2)
    /\ stmts[1].fk.deferred
    /\ stmts[1].fk.v = stmts[2].ent

----------------------------------------------------------------------------
\* The end-to-end batch [E, D, S]: the inserts of a pending event e, of a
\* pending division d created with event_id = e and of a pending stage s
\* created with div_id = d, in that order.
EDS(e, d, s) ==
    /\ Len(stmts) = 3
    /\ \A i \in 1..3 : IsEntityInsert(i)
    /\ stmts[1].ent = e /\ stmts[1].table = "event"
    /\ stmts[2].ent = d /\ stmts[2].table = "division"
    /\ stmts[3].ent = s /\ stmts[3].table = "stage"
    /\ stmts[2].fk = [deferred |-> TRUE, v |-> e]
    /\ stmts[3].fk = [deferred |-> TRUE, v |-> d]
    /\ preId[e] = NoId /\ preId[d] = NoId /\ preId[s] = NoId

\* The stored row of table tbl with identity id.
StoredRow(tbl, id) == {r \in durable : r.tbl = tbl /\ r.id = id}

\* C7 as stated: after commit([E, D, S]) the three ids are non-null and
\* pairwise distinct.
C7_IdsPairwiseDistinct ==
    Returned =>
        \A e, d, s \in Obj :
            EDS(e, d, s) =>
                /\ entity_id[e] # NoId /\ entity_id[d] # NoId /\ entity_id[s] # NoId
                /\ entity_id[e] # entity_id[d]
                /\ entity_id[d] # entity_id[s]
                /\ entity_id[e] # entity_id[s]

\* C7 amended: after commit([E, D, S]) each of the three ids is non-null and
\* is the id of a row of the entity's own table that this commit stored; ids
\* are counted per table, and on an empty database all three are 1.
C7_IdsPerTable ==
    Returned =>
        \A e, d, s \in Obj :
            EDS(e, d, s) =>
                /\ entity_id[e] # NoId /\ entity_id[d] # NoId /\ entity_id[s] # NoId
                /\ StoredRow("event", entity_id[e]) \ preDurable # {}
                /\ StoredRow("division", entity_id[d]) \ preDurable # {}
                /\ StoredRow("stage", entity_id[s]) \ preDurable # {}
                /\ Cardinality(durable) = 3 =>
                      entity_id[e] = 1 /\ entity_id[d] = 1 /\ entity_id[s] = 1

C7_Witness ==
    /\ Returned
    /\ \E e, d, s \in Obj :
          /\ EDS(e, d, s)
          /\ entity_id[e] = 1 /\ entity_id[d] = 1 /\ entity_id[s] = 1
          /\ Cardinality(durable) = 3

\* C8: after commit([E, D, S]) the foreign-key field of D still reads the
\* object E and that of S the object D; E and D carry the ids of their own
\* stored rows, which are the ids the rows of D and S refer to.
C8_ForeignKeyReadsSameObject ==
    Returned =>
        \A e, d, s \in Obj :
            EDS(e, d, s) =>
                /\ getitem(d, "fk") = e /\ etype[e] = "event"
                /\ getitem(s, "fk") = d /\ etype[d] = "division"
                /\ StoredRow("event", getitem(getitem(d, "fk"), "id")) # {}
                /\ \E r \in StoredRow("division", entity_id[d]) : r.fk = entity_id[e]
                /\ \E r \in StoredRow("stage", entity_id[s]) : r.fk = entity_id[d]

C8_Witness ==
    /\ Returned
    /\ \E e, d, s \in Obj :
          /\ EDS(e, d, s)
          /\ getitem(d, "fk") = e
          /\ getitem(s, "fk") = d
          /\ \A i \in 1..3 : Event("notify", i, 0) \in Events

\* C9: once a notification callback has raised, commit() still goes on to
\* return normally, the batch stays committed, and at the return every later
\* statement's notification callback has been called.
C9_NotifyFailureSwallowed ==
    \A i \in 1..Len(stmts) :
        (Event("notify", i, 0) \in Events /\ stmts[i].commit_callback = "raises") =>
            /\ pc = "notify" \/ Returned
            /\ durable = rows
            /\ preDurable \subseteq durable
            /\ Cardinality(durable) >= Cardinality(preDurable) + Len(stmts)
            /\ Returned =>
                  \A k \in (i + 1)..Len(stmts) :
                      /\ stmts[k].commit_callback # "None" => Event("notify", k, 0) \in Events
                      /\ (IsEntityInsert(k) /\ ~delete[stmts[k].ent]) =>
                            /\ changed_fields[stmts[k].ent] = {}
                            /\ \E c \in cache : c.tbl = stmts[k].table /\ c.ent = stmts[k].ent

\* A raising callback followed by the insert of an entity.
C9_Witness ==
    /\ Returned
    /\ Len(stmts) >= 2
    /\ stmts[1].commit_callback = "raises"
    /\ Event("notify", 1, 0) \in Events
    /\ IsEntityInsert(2)
    /\ Event("notify", 2, 0) \in Events
    /\ \E c \in cache : c.ent = stmts[2].ent

\* C10: no two live objects of one table carry the same id, and a fetch on a
\* table in which a cached entity has its stored row returns (that object)
\* instead of raising.
C10_IdentityCacheUniqueness ==
    /\ \A a, b \in Live :
          (a # b /\ etype[a] = etype[b] /\ entity_id[a] # NoId) =>
              entity_id[a] # entity_id[b]
    /\ \A c \in cache :
          (result.op = "fetch" /\ result.tbl = c.tbl /\ StoredRow(c.tbl, c.key) # {}) =>
              result.status = "ok"

----------------------------------------------------------------------------
\* C11: a fetch on a table in which a cached entity with staged values has
\* its stored row returns, leaves that entity's committed values equal to
\* the row and its staged values in place.
C11_FetchRefreshesCached ==
    \A c \in cache :
        (/\ pc = "idle"
         /\ result.op = "fetch"
         /\ result.tbl = c.tbl
         /\ changed_fields[c.ent] # {}
         /\ StoredRow(c.tbl, c.key) # {})
            => /\ result.status = "ok"
               /\ \A r \in StoredRow(c.tbl, c.key) : data_fields[c.ent].num = r.num
               /\ \A p \in changed_fields[c.ent] : getitem(c.ent, p[1]) = p[2]

----------------------------------------------------------------------------
\* Vocabulary of the properties of EntitySpec.

\* The entity state and the storage, which a refused operation leaves alone.
observed == <<etype, entity_id, data_fields, changed_fields, delete, references,
              cache, rows, seq, durable, durableSeq>>

\* The field the last write named is the identity or a read-only field.
ProtectedField ==
    result.field = "id" \/ (result.field = "fk" /\ result.tbl \in ReadOnlyTables)

\* C12: a write that raises because the value fails the check of a writable
\* field (a number below the minimum, a foreign key that is no entity of the
\* target class) changes nothing: no entity's staged or committed values,
\* delete flag or reference index, and nothing in the storage.
C12_RejectedWriteMutatesNothing ==
    [][(/\ pc = "idle"
        /\ result'.op = "setitem"
        /\ result'.status = "raised"
        /\ result'.error \in {"TypeError", "ValueError"}
        /\ ~ProtectedField')
            => UNCHANGED observed]_vars

\* A checkpoint with a staged value refused a foreign key of the wrong
\* class.
C12_Witness ==
    /\ result.op = "setitem"
    /\ result.status = "raised"
    /\ result.error = "TypeError"
    /\ result.field = "fk"
    /\ result.tbl = "checkpoint"
    /\ result.before # {}
    /\ changed_fields[result.ent] = result.before

\* C13: a write to the identity field or to a read-only field raises and
\* changes nothing, through the entity or a view; and whatever is done, a
\* read-only foreign key of a live entity keeps reading the same object.
C13_ReadOnlyNeverReassigned ==
    [][/\ (pc = "idle" /\ result'.op = "setitem" /\ ProtectedField')
            => (result'.status = "raised" /\ UNCHANGED observed)
       /\ \A o \in Obj :
            (etype[o] \in ReadOnlyTables /\ etype'[o] = etype[o])
                => getitem(o, "fk")' = getitem(o, "fk")]_vars

\* A location, stored and read back from the cache of the set-up, refused a
\* new event.
C13_Witness ==
    /\ result.op = "setitem"
    /\ result.status = "raised"
    /\ result.error = "ValueError"
    /\ result.field = "fk"
    /\ result.tbl = "location"
    /\ getitem(result.ent, "fk") = 1

\* The live entities with a foreign-key field.
Referrers == {f \in Live : ForeignTable(etype[f]) # "none"}

\* C14 (a): outside commit(), every entity that is not marked for deletion
\* is returned by get_references of the entity its foreign key reads.
C14_LinkedAtTarget ==
    pc = "idle" =>
        \A f \in Referrers :
            ~delete[f] => f \in get_references(getitem(f, "fk"), etype[f])

\* C14 (b): every entity that get_references of e returns has a foreign key
\* that reads e.
C14_ReferencesReadTarget ==
    \A e \in Live : \A t \in AllTables :
        \A f \in get_references(e, t) : f \in Referrers /\ getitem(f, "fk") = e

\* C14: the reference index and the foreign keys agree, (a) and (b).
C14_ReferenceGraphConsistent == C14_LinkedAtTarget /\ C14_ReferencesReadTarget

\* C15: an entity marked for deletion is returned by get_references of no
\* entity.
C15_DeletedIsUnlinked ==
    \A f \in Live :
        delete[f] => \A e \in Live : f \notin get_references(e, etype[f])

\* C16: revert() of the entity o leaves no staged value, so that every field
\* reads its committed value; entity_id and the committed values stay; when
\* a foreign key was staged, its target no longer returns o (unless it is
\* the committed target as well) and the committed target does; when nothing
\* was staged, nothing changes.
C16_RevertRestoresCommitted ==
    [][\A o \in Obj :
          (pc = "idle" /\ result'.op = "revert" /\ result'.ent = o)
            => /\ changed_fields'[o] = {}
               /\ data_fields' = data_fields
               /\ entity_id' = entity_id
               /\ getitem(o, "fk")' = data_fields[o].fk
               /\ getitem(o, "num")' = data_fields[o].num
               /\ \A p \in changed_fields[o] :
                     p[1] = "fk" =>
                         /\ o \in get_references(data_fields[o].fk, etype[o])'
                         /\ p[2] # data_fields[o].fk =>
                                o \notin get_references(p[2], etype[o])'
               /\ changed_fields[o] = {} => UNCHANGED observed]_vars

\* The statement EntityDbValues.statement is to give for the entity o.
Verb(o) ==
    IF delete[o] THEN (IF entity_id[o] # NoId THEN "DELETE" ELSE "None")
    ELSE IF entity_id[o] # NoId THEN "UPDATE" ELSE "INSERT"

\* C17: asking an entity for its statement gives the one its delete flag and
\* id select (DELETE, none, UPDATE, INSERT); an INSERT carries every field
\* but the identity with the value the entity reads.
C17_StatementFromState ==
    [][\A o \in Obj :
          BuildStatement(o) =>
              /\ result'.status = "ok"
              /\ result'.error = Verb(o)
              /\ Verb(o) = "INSERT" =>
                    /\ Len(stmts') = Len(stmts) + 1
                    /\ stmts'[Len(stmts')].table = etype[o]
                    /\ stmts'[Len(stmts')].num = getitem(o, "num")
                    /\ ForeignTable(etype[o]) # "none" =>
                          stmts'[Len(stmts')].fk = to_db(getitem(o, "fk"))]_vars

----------------------------------------------------------------------------
\* Vocabulary of the properties of WhereSpec.

returned == result.op \in {"compile_where", "compile_op"} /\ result.status = "ok"
raised == result.op \in {"compile_where", "compile_op"} /\ result.status = "raised"

RECURSIVE Concat(_)
Concat(ss) == IF ss = <<>> THEN <<>> ELSE ss[1] \o Concat(Tail(ss))

IsOp(c, ops) ==
    c.kind = "list" /\ Len(c.items) > 0 /\ c.items[1].kind = "str"
        /\ c.items[1].s \in ops

Unmarked(field) == IF Len(field) > 0 /\ field[1] = "!" THEN Tail(field) ELSE field

\* The tests a criteria expression asks for, as <<column, operator, value>>,
\* in the order they are written.
RECURSIVE TestsOfField(_, _)
TestsOfField(column, c) ==
    IF IsOp(c, BoolOps)
    THEN Concat([i \in 1..(Len(c.items) - 1) |-> TestsOfField(column, c.items[i + 1])])
    ELSE IF c.kind = "list"
    THEN [i \in 1..(Len(c.items) - 1) |-> <<column, c.items[1].s, c.items[i + 1]>>]
    ELSE <<<<column, "=", c>>>>

RECURSIVE TestsOf(_)
TestsOf(c) ==
    IF c.kind = "list"
    THEN Concat([i \in 1..Len(c.items) |-> TestsOf(c.items[i])])
    ELSE Concat([i \in 1..Len(c.items) |->
                    TestsOfField(Unmarked(c.items[i].field), c.items[i].items[1])])

Asked ==
    IF result.op = "compile_where" THEN TestsOf(result.criteria)
    ELSE TestsOfField(Unmarked(result.field), result.criteria)

\* The positions of the placeholders in the SQL, left to right.
PlaceholderAt(sql) == {p \in DOMAIN sql : sql[p] = "?"}
Rank(sql, p) == Cardinality({q \in PlaceholderAt(sql) : q <= p})

\* The column a placeholder is compared with and the operator that does it:
\* the last "column operator" written before it.
ColumnBefore(sql, p) ==
    LET at == CHOOSE q \in 1..p :
                  /\ <<sql[q]>> \in Fields
                  /\ \A r \in (q + 1)..p : <<sql[r]>> \notin Fields
    IN <<<<sql[at]>>, sql[at + 2]>>

\* C18: whenever the compiler returns, the SQL has as many "?" as there are
\* arguments, and the i-th "?" stands in the test of the column and operator
\* that the i-th argument was written for, the arguments being the values of
\* the criteria in the order written.
C18_PlaceholdersMatchArguments ==
    returned =>
        /\ Cardinality(PlaceholderAt(result.sql)) = Len(result.args)
        /\ Len(result.args) = Len(Asked)
        /\ \A p \in PlaceholderAt(result.sql) :
              LET i == Rank(result.sql, p)
                  at == ColumnBefore(result.sql, p)
              IN Asked[i] = <<at[1], at[2], result.args[i]>>

C18_Witness ==
    /\ returned
    /\ result.op = "compile_where"
    /\ Len(result.args) >= 3
    /\ \E p, q, r \in DOMAIN result.sql :
          result.sql[p] = "NOT " /\ result.sql[q] = "IN" /\ result.sql[r] = " AND "
    /\ \E i, j \in DOMAIN result.args : result.args[i] # result.args[j]

\* The malformed criteria: a mapping as a field's criteria, an empty operator
\* array, IN / NOT IN without arguments, a comparison with other than one
\* argument, an unknown operator, or any of these under AND/OR ...
RECURSIVE MalformedField(_)
MalformedField(c) ==
    \/ c.kind = "dict"
    \/ c.kind = "list" /\ Len(c.items) = 0
    \/ IsOp(c, InOps) /\ Len(c.items) = 1
    \/ IsOp(c, CompareOps) /\ Len(c.items) # 2
    \/ c.kind = "list" /\ Len(c.items) > 0
           /\ ~IsOp(c, BoolOps \cup InOps \cup CompareOps)
    \/ IsOp(c, BoolOps) /\ \E i \in 2..Len(c.items) : MalformedField(c.items[i])

\* ... a top-level value that is neither a mapping nor a list, or a malformed
\* part in a mapping or in an item of a list.
RECURSIVE Malformed(_)
Malformed(c) ==
    \/ c.kind \notin {"list", "dict"}
    \/ c.kind = "list" /\ \E i \in 1..Len(c.items) : Malformed(c.items[i])
    \/ c.kind = "dict"
           /\ \E i \in 1..Len(c.items) : MalformedField(c.items[i].items[1])

MalformedCall ==
    IF result.op = "compile_where" THEN Malformed(result.criteria)
    ELSE MalformedField(result.criteria)

\* C19: a call with malformed criteria raises (TypeError or ValueError) and
\* gives no SQL, wherever in the criteria the malformed part is.
C19_MalformedRaises ==
    (result.op \in {"compile_where", "compile_op"} /\ result.status # "called"
        /\ MalformedCall)
    => /\ raised
       /\ result.error \in {"TypeError", "ValueError"}
       /\ result.sql = <<>> /\ result.args = <<>>

C19_Witness ==
    /\ raised
    /\ result.op = "compile_where"
    /\ result.criteria.kind = "dict"
    /\ Len(result.criteria.items) = 2
    /\ ~MalformedField(result.criteria.items[1].items[1])
    /\ IsOp(result.criteria.items[2].items[1], CompareOps)
    /\ Len(result.criteria.items[2].items[1].items) = 1

\* What the criteria mean for a row, read from their shape alone: a scalar
\* asks for equality, an operator array for its test, AND/OR for all/any of
\* its sub-arrays, a marked field for the contrary, a mapping for all of its
\* fields and a list for any of its items.
Columns == {"a", "b"}
Rows == [Columns -> 0..(MaxValue + 1)]

\* LIKE between integers without wildcards compares their text.
Compare(op, x, y) ==
    CASE op = "=" -> x = y
      [] op = "!=" -> x # y
      [] op = "<" -> x < y
      [] op = "<=" -> x <= y
      [] op = ">" -> x > y
      [] op = ">=" -> x >= y
      [] op = "LIKE" -> x = y
      [] op = "NOT LIKE" -> x # y

RECURSIVE HoldsField(_, _, _)
HoldsField(column, c, row) ==
    IF IsOp(c, {"AND"})
    THEN \A i \in 2..Len(c.items) : HoldsField(column, c.items[i], row)
    ELSE IF IsOp(c, {"OR"})
    THEN \E i \in 2..Len(c.items) : HoldsField(column, c.items[i], row)
    ELSE IF IsOp(c, {"IN"})
    THEN \E i \in 2..Len(c.items) : row[column] = c.items[i].n
    ELSE IF IsOp(c, {"NOT IN"})
    THEN \A i \in 2..Len(c.items) : row[column] # c.items[i].n
    ELSE IF IsOp(c, CompareOps)
    THEN Compare(c.items[1].s, row[column], c.items[2].n)
    ELSE row[column] = c.n

HoldsPair(field, c, row) ==
    IF field # Unmarked(field)
    THEN ~HoldsField(Unmarked(field)[1], c, row)
    ELSE HoldsField(field[1], c, row)

RECURSIVE Holds(_, _)
Holds(c, row) ==
    IF c.kind = "list"
    THEN \E i \in 1..Len(c.items) : Holds(c.items[i], row)
    ELSE \A i \in 1..Len(c.items) :
            HoldsPair(c.items[i].field, c.items[i].items[1], row)

\* Criteria with an empty mapping, list or AND/OR somewhere compile to an
\* empty fragment, which is no SQL expression.
RECURSIVE EmptyField(_)
EmptyField(c) ==
    IsOp(c, BoolOps)
        /\ (Len(c.items) = 1 \/ \E i \in 2..Len(c.items) : EmptyField(c.items[i]))

RECURSIVE Empty(_)
Empty(c) ==
    \/ Len(c.items) = 0
    \/ c.kind = "list" /\ \E i \in 1..Len(c.items) : Empty(c.items[i])
    \/ c.kind = "dict" /\ \E i \in 1..Len(c.items) : EmptyField(c.items[i].items[1])

\* The SQL read back as the database reads it: NOT binds tighter than AND,
\* AND tighter than OR, the i-th "?" takes the i-th argument.  A reading is
\* [ok, val, pos, k]: whether it parsed, its truth for the row, the next
\* piece and the next argument.
Lexed(sql) ==
    LET words == SelectSeq(sql, LAMBDA t : t # " ")
    IN [i \in 1..Len(words) |->
           IF words[i] = " AND " THEN "AND"
           ELSE IF words[i] = " OR " THEN "OR" ELSE words[i]]

Tok(ctx, pos) == IF pos \in DOMAIN ctx.toks THEN ctx.toks[pos] ELSE "<end>"
Unread == [ok |-> FALSE, val |-> FALSE, pos |-> 0, k |-> 0]

RECURSIVE ReadOr(_, _, _)
RECURSIVE ReadOrRest(_, _)
RECURSIVE ReadAnd(_, _, _)
RECURSIVE ReadAndRest(_, _)
RECURSIVE ReadNot(_, _, _)
RECURSIVE ReadTest(_, _, _)

ReadOr(ctx, pos, k) ==
    LET l == ReadAnd(ctx, pos, k) IN IF l.ok THEN ReadOrRest(ctx, l) ELSE l

ReadOrRest(ctx, l) ==
    IF Tok(ctx, l.pos) # "OR" THEN l
    ELSE LET r == ReadAnd(ctx, l.pos + 1, l.k)
         IN IF r.ok THEN ReadOrRest(ctx, [r EXCEPT !.val = l.val \/ r.val]) ELSE r

ReadAnd(ctx, pos, k) ==
    LET l == ReadNot(ctx, pos, k) IN IF l.ok THEN ReadAndRest(ctx, l) ELSE l

ReadAndRest(ctx, l) ==
    IF Tok(ctx, l.pos) # "AND" THEN l
    ELSE LET r == ReadNot(ctx, l.pos + 1, l.k)
         IN IF r.ok THEN ReadAndRest(ctx, [r EXCEPT !.val = l.val /\ r.val]) ELSE r

ReadNot(ctx, pos, k) ==
    IF Tok(ctx, pos) # "NOT " THEN ReadTest(ctx, pos, k)
    ELSE LET r == ReadNot(ctx, pos + 1, k)
         IN IF r.ok THEN [r EXCEPT !.val = ~r.val] ELSE r

ReadTest(ctx, pos, k) ==
    IF Tok(ctx, pos) = "("
    THEN LET r == ReadOr(ctx, pos + 1, k)
         IN IF r.ok /\ Tok(ctx, r.pos) = ")" THEN [r EXCEPT !.pos = r.pos + 1]
            ELSE Unread
    ELSE IF Tok(ctx, pos) \notin Columns THEN Unread
    ELSE LET x == ctx.row[Tok(ctx, pos)]
             op == Tok(ctx, pos + 1)
         IN IF op \in CompareOps
            THEN IF Tok(ctx, pos + 2) = "?" /\ k <= Len(ctx.args)
                 THEN [ok |-> TRUE, val |-> Compare(op, x, ctx.args[k].n),
                       pos |-> pos + 3, k |-> k + 1]
                 ELSE Unread
            ELSE IF op \in InOps /\ Tok(ctx, pos + 2) = "("
                        /\ \E q \in (pos + 3)..Len(ctx.toks) : ctx.toks[q] = ")"
            THEN LET close == CHOOSE q \in (pos + 3)..Len(ctx.toks) :
                                  /\ ctx.toks[q] = ")"
                                  /\ \A r \in (pos + 3)..(q - 1) : ctx.toks[r] # ")"
                     n == close - pos - 3
                     m == (n + 1) \div 2
                 IN IF /\ n % 2 = 1
                       /\ \A j \in 0..(n - 1) :
                             ctx.toks[pos + 3 + j] = IF j % 2 = 0 THEN "?" ELSE ", "
                       /\ k + m - 1 <= Len(ctx.args)
                    THEN [ok |-> TRUE,
                          val |-> (op = "IN") <=>
                                     (\E j \in 0..(m - 1) : x = ctx.args[k + j].n),
                          pos |-> close + 1, k |-> k + m]
                    ELSE Unread
            ELSE Unread

\* The SQL selects the row: it reads as one whole expression that uses all
\* the arguments, and is true.
Selects(sql, args, row) ==
    LET ctx == [toks |-> Lexed(sql), args |-> args, row |-> row]
        r == ReadOr(ctx, 1, 1)
    IN [ok |-> r.ok /\ r.pos = Len(ctx.toks) + 1 /\ r.k = Len(args) + 1,
        val |-> r.val]

\* The connectives of the SQL that stand outside every parenthesis.
Depth(sql, p) ==
    Cardinality({q \in 1..(p - 1) : sql[q] = "("})
        - Cardinality({q \in 1..(p - 1) : sql[q] = ")"})
Outer(sql, words) == {p \in DOMAIN sql : sql[p] \in words /\ Depth(sql, p) = 0}

\* C20: the returned SQL is the composition of the criteria: it selects
\* exactly the rows for which all fields of a mapping, any item of a list,
\* the equality of a scalar, the connective of an AND/OR array over its
\* sub-arrays and the contrary of a marked field hold; a mapping of n fields
\* is n fragments joined by AND and a list of n items n fragments joined by
\* OR; a marked field gives NOT ( ) around the SQL of the unmarked field,
\* with the same arguments.
C20_Composition ==
    returned =>
        /\ (result.op = "compile_where" /\ ~Empty(result.criteria)) =>
              /\ \A row \in Rows :
                    LET got == Selects(result.sql, result.args, row)
                    IN got.ok /\ (got.val <=> Holds(result.criteria, row))
              /\ Outer(result.sql, {" AND ", " OR ", "AND", "OR"})
                    = Outer(result.sql,
                            IF result.criteria.kind = "dict" THEN {" AND "}
                            ELSE {" OR "})
              /\ Cardinality(Outer(result.sql, {" AND ", " OR "}))
                    = Len(result.criteria.items) - 1
        /\ (result.op = "compile_op" /\ ~EmptyField(result.criteria)) =>
              \A row \in Rows :
                  LET got == Selects(result.sql, result.args, row)
                  IN got.ok /\ (got.val <=> HoldsPair(result.field, result.criteria, row))
        /\ (result.op = "compile_op" /\ result.field # Unmarked(result.field)) =>
              LET plain == compile_op(Unmarked(result.field), result.criteria)
              IN /\ plain.ok
                 /\ result.sql = <<"NOT ", "(">> \o plain.sql \o <<")">>
                 /\ result.args = plain.args

C20_Witness ==
    /\ returned
    /\ result.op = "compile_where"
    /\ result.criteria.kind = "dict"
    /\ ~Empty(result.criteria)
    /\ result.criteria.items[1].field # Unmarked(result.criteria.items[1].field)
    /\ IsOp(result.criteria.items[1].items[1], {"AND"})
    /\ IsOp(result.criteria.items[1].items[1].items[2], {"OR"})
    /\ \E row \in Rows : Holds(result.criteria, row)
    /\ \E row \in Rows : ~Holds(result.criteria, row)

----------------------------------------------------------------------------
\* Properties of ConversionSpec.

\* C21: for every field specification and every user-facing value it
\* accepts, converting the value to the field's value and back to the user
\* gives the value again.
C21_UserRoundTrip ==
    (result.op = "uservalue" /\ result.status \in {"ok", "raised"})
        => (result.status = "ok" /\ result.out = result.v)

\* C22: for every field specification and every value of the field that
\* passes its check, storing the value and decoding what was stored gives
\* the value again; for a foreign key whose target has an id, the target.
C22_StorageRoundTrip ==
    (/\ result.op = "dbvalue" /\ result.status \in {"ok", "raised"}
     /\ result.spec.cls = "ForeignFieldSpec" => entity_id[result.v.ent] # NoId)
        => (result.status = "ok" /\ result.out = result.v)

----------------------------------------------------------------------------
\* Properties of the foreign-key arguments of statements.

\* C23: the statement built for an entity holds, for its foreign key, the id
\* of the target when the target has one at that moment, and otherwise a
\* resolver of that target; a resolver called at execution raises ValueError
\* when the target is still pending, and otherwise gives the id the target
\* has by then, which is what the inserted row stores.
C23_ForeignKeyStorage ==
    [][/\ \A o \in Obj :
             (BuildStatement(o) /\ result'.error = "INSERT"
                 /\ ForeignTable(etype[o]) # "none")
             => LET target == getitem(o, "fk")
                    arg == stmts'[Len(stmts')].fk
                IN IF entity_id[target] # NoId
                   THEN arg = [deferred |-> FALSE, v |-> entity_id[target]]
                   ELSE arg = [deferred |-> TRUE, v |-> target]
       /\ (pc = "execute" /\ stmts[idx].fk.deferred)
             => LET target == stmts[idx].fk.v
                IN IF entity_id[target] = NoId
                   THEN /\ result'.status = "raised"
                        /\ result'.error = "ValueError"
                        /\ rows' = durable
                   ELSE /\ result'.error # "ValueError"
                        /\ pc' # "idle" =>
                              \E r \in rows' \ rows :
                                  r.tbl = stmts[idx].table /\ r.fk = entity_id[target]
      ]_vars

\* A batch holding a resolver that was resolved by a commit, and after it a
\* statement built when the same target had its id.
C23_Witness ==
    /\ pc = "idle"
    /\ Len(stmts) = 3
    /\ stmts[2].fk.deferred
    /\ entity_id[stmts[2].fk.v] # NoId
    /\ \E r \in durable : r.tbl = stmts[2].table /\ r.fk = entity_id[stmts[2].fk.v]
    /\ stmts[3].fk = [deferred |-> FALSE, v |-> entity_id[stmts[2].fk.v]]
    /\ stmts[3].table = stmts[2].table

\* C24: once a pending entity E was assigned to the foreign-key field of an
\* entity F, the statement of F can be built and holds a resolver of E for
\* that field, and reading the arguments of the statement while E is pending
\* yields that resolver in the field's position, not an id.
C24_PendingTargetReadsDeferred ==
    [][/\ \A o \in Obj :
             (BuildStatement(o) /\ ForeignTable(etype[o]) # "none"
                 /\ "fk" \in dirty(o) /\ entity_id[getitem(o, "fk")] = NoId)
             => /\ result'.status = "ok"
                /\ Len(stmts') = Len(stmts) + 1
                /\ stmts'[Len(stmts')].fk = [deferred |-> TRUE, v |-> getitem(o, "fk")]
       /\ \A i \in 1..Len(stmts) :
             (ReadArguments(i) /\ stmts[i].fk.deferred /\ entity_id[stmts[i].fk.v] = NoId)
             => /\ result'.status = "ok"
                /\ result'.fk = stmts[i].fk
      ]_vars

----------------------------------------------------------------------------
\* The step is a create that returns the object c / a create that raises.
Created(c) == pc = "idle" /\ nops' = nops + 1 /\ etype[c] = "none" /\ etype'[c] # "none"
CreateRaised == pc = "idle" /\ nops' = nops + 1 /\ result'.op = "create"

\* C25: Database.create(type, fields) returns a pending entity (entity_id
\* unset) and changes neither the storage nor the identity cache; a create
\* that is given the identity field among the fields raises and creates
\* nothing: no object comes into use and storage and cache stay as they were.
C25_CreateIsPendingAndLocal ==
    [][/\ \A c \in Obj :
             Created(c)
             => /\ entity_id'[c] = NoId
                /\ rows' = rows /\ durable' = durable /\ seq' = seq
                /\ cache' = cache
       /\ (CreateRaised /\ result'.given)
             => /\ result'.status = "raised"
                /\ etype' = etype /\ entity_id' = entity_id
                /\ data_fields' = data_fields /\ references' = references
                /\ rows' = rows /\ durable' = durable /\ seq' = seq
                /\ cache' = cache
      ]_vars

\* A create given the identity field has just been refused, in a run where
\* an earlier create returned a pending entity beside the stored ones.
C25_Witness ==
    /\ result.op = "create" /\ result.status = "raised" /\ result.given
    /\ \E o \in Live : entity_id[o] = NoId
    /\ rows # {} /\ cache # {}

----------------------------------------------------------------------------
\* C26: a persisted entity marked for deletion gives a DELETE statement, and
\* once a commit of that statement has returned the entity's row is not in
\* the storage, the cache of its table has no entry under its id and no
\* entity returns it from get_references.
C26_DeleteCommitted ==
    [][/\ \A o \in Obj :
             (BuildStatement(o) /\ delete[o] /\ entity_id[o] # NoId)
             => /\ result'.status = "ok"
                /\ Len(stmts') = Len(stmts) + 1
                /\ stmts'[Len(stmts')].action = "DELETE"
                /\ stmts'[Len(stmts')].ent = o
       /\ Returned' =>
             \A i \in 1..Len(stmts) :
                 stmts[i].action = "DELETE" =>
                     LET o == stmts[i].ent
                     IN /\ \A r \in durable' : ~(r.tbl = etype[o] /\ r.id = entity_id[o])
                        /\ \A x \in cache' : ~(x.tbl = etype[o] /\ x.key = entity_id[o])
                        /\ \A e \in Live : o \notin get_references(e, etype[o])'
      ]_vars

----------------------------------------------------------------------------
\* C27: as soon as an entity has been constructed with the entity P in its
\* foreign-key field, P.get_references of its type returns it, also when
\* both are pending; a construction that a field check refuses leaves every
\* reference index as it was and the object in none of them.
C27_ConstructorLinks ==
    [][/\ \A c \in Obj :
             (Created(c) /\ ForeignTable(etype'[c]) # "none")
             => \E p \in Live, t \in EntityTables :
                    /\ t = etype'[c]
                    /\ p = getitem(c, "fk")'
                    /\ c \in get_references(p, t)'
       /\ (CreateRaised /\ ~result'.given)
             => /\ references' = references
                /\ \A e \in Obj, t \in EntityTables :
                        get_references(e, t)' \subseteq Live
      ]_vars

\* A field check has just refused a construction, and a pending entity is
\* linked at its pending foreign-key target.
C27_Witness ==
    /\ result.op = "create" /\ result.status = "raised" /\ ~result.given
    /\ \E c, p \in Live :
          /\ entity_id[c] = NoId /\ entity_id[p] = NoId
          /\ ForeignTable(etype[c]) # "none"
          /\ getitem(c, "fk") = p
          /\ c \in get_references(p, etype[c])

----------------------------------------------------------------------------
\* The ids the execution of statement i handed to its entity in the commit
\* the trace records.
AssignedIn(i) == {e.arg : e \in {x \in Events : x.ev = "rowid" /\ x.stmt = i /\ x.arg # NoId}}

\* Statement j carries, as a plain value, an id that statement i's entity
\* was given in the commit and has lost again.
Retains(j, i) ==
    /\ IsEntityInsert(i)
    /\ entity_id[stmts[i].ent] = NoId
    /\ ForeignTable(stmts[j].table) = stmts[i].table
    /\ ~stmts[j].fk.deferred
    /\ stmts[j].fk.v \in AssignedIn(i)

\* C28: resolution is lazy.  Reading the arguments of a statement whose
\* foreign key is deferred gives the id its target has at that moment and
\* raises when the target has none, whatever id the target had before; and
\* after a commit that raised, no statement of the batch carries an id that
\* the commit gave to an entity and took back.
C28_LazyResolution ==
    [][/\ \A i \in 1..Len(stmts) :
             (pc = "idle" /\ nops' = nops + 1 /\ result'.op = "arguments"
                 /\ result'.stmt = i /\ stmts[i].fk.deferred)
             => IF entity_id[stmts[i].fk.v] = NoId
                THEN result'.status = "raised"
                ELSE /\ result'.status = "ok"
                     /\ result'.fk.v = entity_id[stmts[i].fk.v]
       /\ Raised' => \A i, j \in 1..Len(stmts) : ~Retains(j, i)'
      ]_vars

----------------------------------------------------------------------------
\* C29: in the batch the save action of the event set-up dialogue hands to
\* commit, the INSERT of every pending entity comes after the INSERT of every
\* pending entity that one of its foreign-key fields reads.
C29_ReferencedInsertedFirst ==
    pc = "execute" =>
        \A i \in 1..Len(stmts) :
            \A f \in ForeignFields(stmts[i].table) :
                LET target == getitem(stmts[i].ent, f[1])
                IN entity_id[target] = NoId =>
                       \E j \in 1..(i - 1) :
                           stmts[j].action = "INSERT" /\ stmts[j].ent = target

\* A batch with the INSERT of a checkpoint that reads a pending division,
\* stage and location, the location chosen in the checkpoint's dialogue, in
\* a run in which a dialogue was cancelled.
C29_Witness ==
    /\ pc = "execute"
    /\ \E i \in 1..Len(stmts) :
          /\ stmts[i].table = "checkpoint"
          /\ \A f \in ForeignFields("checkpoint") : stmts[i].args[f].deferred
          /\ "loc_id" \in dirty(stmts[i].ent)
    /\ \E o \in SetupObj : delete[o]

----------------------------------------------------------------------------
\* C30: when a commit has succeeded and notifies the statement of an entity,
\* the entity's staged values are folded into its committed ones: its dirty
\* set is empty afterwards and each of its fields reads what it read before.
C30_CommitFoldsStaged ==
    [][\A o \in Obj :
          (/\ pc = "notify"
           /\ <<pc, idx>>' # <<pc, idx>>
           /\ stmts[idx].commit_callback = "_mark_committed"
           /\ stmts[idx].ent = o)
          => /\ dirty(o)' = {}
             /\ getitem(o, "fk")' = getitem(o, "fk")
             /\ getitem(o, "num")' = getitem(o, "num")
      ]_vars

----------------------------------------------------------------------------
\* The SQL has a parenthesised group with nothing in it.
EmptyGroup(sql) == \E i \in 1..(Len(sql) - 1) : sql[i] = "(" /\ sql[i + 1] = ")"

\* C31: the compiler never returns an empty SQL fragment nor one with an
\* empty parenthesised group; criteria with nothing to combine (an AND / OR
\* array without sub-criteria, an empty mapping, an empty top-level list)
\* raise.
C31_NoEmptyFragment ==
    /\ returned => (result.sql # <<>> /\ ~EmptyGroup(result.sql))
    /\ (result.op = "compile_where" /\ result.status # "called"
           /\ Empty(result.criteria)) => raised

----------------------------------------------------------------------------
\* C32: RangeFieldSpec.check of a number fails exactly when the number is
\* below a minimum that is set or above a maximum that is set (the bounds
\* themselves pass, a bound that is not set excludes nothing);
\* ForeignFieldSpec.check fails exactly when the value is not an entity of
\* the target type.
C32_CheckExact ==
    /\ (result.op = "range_check" /\ result.status # "called" /\ result.v.kind = "int")
       => (result.status = "raised"
             <=> \/ result.minimum.kind = "int" /\ result.v.n < result.minimum.n
                 \/ result.maximum.kind = "int" /\ result.v.n > result.maximum.n)
    /\ (result.op = "foreign_check" /\ result.status # "called")
       => (result.status = "raised"
             <=> ~(/\ result.v.kind = "entity"
                   /\ result.v.ent \in Live
                   /\ etype[result.v.ent] = result.entity_class))

\* A number equal to the maximum has passed a check without a minimum.
C32_Witness ==
    /\ result.op = "range_check" /\ result.status = "ok"
    /\ result.minimum.kind = "NoneType"
    /\ result.maximum.kind = "int" /\ result.v.kind = "int"
    /\ result.v.n = result.maximum.n

----------------------------------------------------------------------------
\* C33: a commit that raises leaves the entities and the cache as they were
\* when it was called: no step of it before the notifications touches the
\* staged or committed values, a delete flag, a reference index or the
\* cache, no notification callback has run when it raises, and every entity
\* that had the id of a stored row when it was called has that id again.
C33_FailedCommitLeavesModel ==
    [][/\ pc \in {"execute", "conn_commit"}
             => UNCHANGED <<data_fields, changed_fields, delete, references, cache>>
       /\ Raised'
             => /\ \A e \in Events' : e.ev # "notify"
                /\ \A o \in Live :
                      (\E r \in preDurable' : r.tbl = etype[o] /\ r.id = preId'[o])
                      => entity_id'[o] = preId'[o]
      ]_vars

----------------------------------------------------------------------------
\* C34: outside a commit, the entity the cache holds under key k of a table
\* has the identity k and a row with the id k is stored in that table.
C34_CacheAgreesWithStorage ==
    pc = "idle"
    => \A x \in cache :
          /\ entity_id[x.ent] = x.key
          /\ \E r \in durable : r.tbl = x.tbl /\ r.id = x.key

----------------------------------------------------------------------------
\* C35: when a commit has returned, every entity it inserted that is not
\* flagged for deletion has as committed values the values of its stored
\* row, whatever was written to the entity after its statement was built.
C35_CommittedEqualsRow ==
    Returned
    => \A i \in 1..Len(stmts) :
          (IsEntityInsert(i) /\ ~delete[stmts[i].ent])
          => \E r \in durable :
                /\ r.tbl = stmts[i].table
                /\ r.id = entity_id[stmts[i].ent]
                /\ r.num = data_fields[stmts[i].ent].num
                /\ r.fk = IF data_fields[stmts[i].ent].fk = NoObj THEN NoId
                          ELSE entity_id[data_fields[stmts[i].ent].fk]

----------------------------------------------------------------------------
\* C36: an entity whose identity is the id of a row stored in its table
\* keeps that identity, as long as the object lives, in every step of the
\* caller and of any later commit.
C36_IdentityStable ==
    [][\A o \in Live :
          (o \in Live' /\ \E r \in durable : r.tbl = etype[o] /\ r.id = entity_id[o])
          => entity_id'[o] = entity_id[o]
      ]_vars

----------------------------------------------------------------------------
\* C37: outside a commit, the list get_references returns for a table holds
\* every referring entity at most once.
C37_ReferencesOnce ==
    pc = "idle"
    => \A o \in Live, t \in AllTables, e \in Live :
          get_references_count(o, t, e) <= 1

----------------------------------------------------------------------------
\* C38: the batch the save action hands to commit is closed under its
\* deferred references: the entity a deferred argument of one of its
\* statements stands for is not marked for deletion and has exactly one
\* INSERT statement of its own in the batch, and no statement of the batch
\* belongs to an entity marked for deletion.
C38_BatchClosed ==
    pc = "execute" =>
        \A i \in 1..Len(stmts) :
            /\ stmts[i].action = "INSERT"
            /\ ~delete[stmts[i].ent]
            /\ \A f \in DOMAIN stmts[i].args :
                  stmts[i].args[f].deferred
                  => /\ ~delete[stmts[i].args[f].v]
                     /\ Cardinality({j \in 1..Len(stmts) :
                                        /\ stmts[j].action = "INSERT"
                                        /\ stmts[j].ent = stmts[i].args[f].v}) = 1

\* A batch with the INSERT of a checkpoint, saved after the dialogue of a
\* new location and the dialogue of a new stage were cancelled: the
\* cancelled entities are of the types the checkpoint refers to.
C38_Witness ==
    /\ pc = "execute"
    /\ \E i \in 1..Len(stmts) : stmts[i].table = "checkpoint"
    /\ \E l, s \in SetupObj :
          /\ etype[l] = "location" /\ delete[l]
          /\ etype[s] = "stage" /\ delete[s]

====
